---- MODULE Spec2Model ----
(***************************************************************************)
(* The streaming decode pipeline of proxy-service:                         *)
(*   - the typed event stream Stream[T] of package ssestream               *)
(*     (src/internal/converter/perplexity.go, second half), and            *)
(*   - the think-tag splitter inside PerplexityService.StreamChat-         *)
(*     Completions (src/internal/service/perplexity.go).                   *)
(*                                                                         *)
(* A Go string is modelled as a sequence of one-character strings, so that *)
(* prefix tests, slicing and byte-wise appends are computed as the code    *)
(* computes them.  A nil error is the empty sequence; a non-nil error is   *)
(* the sequence of the parts its message is formatted from.                *)
(***************************************************************************)
EXTENDS Integers, Sequences, FiniteSets, TLC

(***************************************************************************)
(* Literals of the source.                                                 *)
(***************************************************************************)
OpenTag == <<"<", "t", "h", "i", "n", "k", ">">>

CloseTag == <<"<", "/", "t", "h", "i", "n", "k", ">">>

DoneSentinel == <<"[", "D", "O", "N", "E", "]">>

ThreadPrefix == <<"t", "h", "r", "e", "a", "d", ".">>

\* len("</think>"), the literal 8 of isPotentialTagPrefix and of the scan
MaxTagLen == 8

Nil == <<>>

(***************************************************************************)
(* strings / bytes helpers of the Go standard library                      *)
(***************************************************************************)
\* strings.HasPrefix(s, prefix), bytes.HasPrefix(s, prefix)
HasPrefix(s, prefix) ==
    /\ Len(prefix) <= Len(s)
    /\ SubSeq(s, 1, Len(prefix)) = prefix

\* s[i:] with the model's 1-based index i
SliceFrom(s, i) == SubSeq(s, i, Len(s))

\* strings.Contains(s, sub)
Contains(s, sub) ==
    \E i \in 1..(Len(s) - Len(sub) + 1) : SubSeq(s, i, i + Len(sub) - 1) = sub

RECURSIVE Flatten(_)
\* the concatenation of a sequence of strings
Flatten(ss) == IF ss = <<>> THEN <<>> ELSE Head(ss) \o Flatten(Tail(ss))

(***************************************************************************)
(* The think-tag splitter: the per-chunk scan of StreamChatCompletions.    *)
(* A message handed to conn.Send is [kind, text]: kind "reasoning" for a   *)
(* ReasoningChunk and "message" for a MessageChunk.                        *)
(***************************************************************************)
KindOf(inThinking) == IF inThinking THEN "reasoning" ELSE "message"

\* a variant that tests the tag of the other mode
isPotentialTagPrefix_wrongMode(str, inThinking) ==
    IF Len(str) = 0 \/ Len(str) >= MaxTagLen
    THEN FALSE
    ELSE IF inThinking THEN HasPrefix(OpenTag, str) ELSE HasPrefix(CloseTag, str)

\* a variant that never holds anything back
isPotentialTagPrefix_never(str, inThinking) == FALSE

isPotentialTagPrefix(str, inThinking) ==
    IF Len(str) = 0 \/ Len(str) >= MaxTagLen
    THEN FALSE
    ELSE IF inThinking THEN HasPrefix(CloseTag, str) ELSE HasPrefix(OpenTag, str)

\* a variant that takes "<think>" as a tag in either mode
MatchesOpen_anyMode(deltaContent, i, inThinking) ==
    HasPrefix(SliceFrom(deltaContent, i), OpenTag)

\* !inThinking && strings.HasPrefix(deltaContent[i:], "<think>")
MatchesOpen(deltaContent, i, inThinking) ==
    ~inThinking /\ HasPrefix(SliceFrom(deltaContent, i), OpenTag)

\* a variant that takes "</think>" as a tag in either mode
MatchesClose_anyMode(deltaContent, i, inThinking) ==
    HasPrefix(SliceFrom(deltaContent, i), CloseTag)

\* inThinking && strings.HasPrefix(deltaContent[i:], "</think>")
MatchesClose(deltaContent, i, inThinking) ==
    inThinking /\ HasPrefix(SliceFrom(deltaContent, i), CloseTag)

\* a variant that bounds the remainder by the length of the open tag
HoldsBack_short(remaining, inThinking) ==
    Len(remaining) < Len(OpenTag) /\ isPotentialTagPrefix(remaining, inThinking)

\* len(remaining) < 8 && s.isPotentialTagPrefix(remaining, inThinking)
HoldsBack(remaining, inThinking) ==
    Len(remaining) < MaxTagLen /\ isPotentialTagPrefix(remaining, inThinking)

(***************************************************************************)
(* History kept next to the scan: runs is the list of stretches of text    *)
(* written between two consecutive mode changes, each with the mode it was *)
(* written in; opens and closes count the tags matched.  The code keeps    *)
(* none of them; they record what the scan did.                            *)
(***************************************************************************)
RunWrite(runs, text) ==
    [runs EXCEPT ![Len(runs)].text = @ \o text]

RunFlip(runs, inThinking) ==
    Append(runs, [kind |-> KindOf(inThinking), text |-> <<>>])

\* The scan state: the locals i, inThinking, reasoningBuf, messageBuf, buffer.
ScanStart(inThinking, hist) ==
    [i |-> 1, inThinking |-> inThinking, reasoningBuf |-> <<>>,
     messageBuf |-> <<>>, buffer |-> <<>>,
     runs |-> hist.runs, opens |-> hist.opens, closes |-> hist.closes]

\* a variant whose break forgets to write the remainder to the buffer
ScanStep_dropsRemainder(deltaContent, sc) ==
    IF MatchesOpen(deltaContent, sc.i, sc.inThinking)
    THEN [sc EXCEPT !.inThinking = TRUE, !.i = @ + Len(OpenTag),
                    !.runs = RunFlip(@, TRUE), !.opens = @ + 1]
    ELSE IF MatchesClose(deltaContent, sc.i, sc.inThinking)
    THEN [sc EXCEPT !.inThinking = FALSE, !.i = @ + Len(CloseTag),
                    !.runs = RunFlip(@, FALSE), !.closes = @ + 1]
    ELSE IF HoldsBack(SliceFrom(deltaContent, sc.i), sc.inThinking)
    THEN [sc EXCEPT !.i = Len(deltaContent) + 1]
    ELSE IF sc.inThinking
    THEN [sc EXCEPT !.reasoningBuf = Append(@, deltaContent[sc.i]), !.i = @ + 1,
                    !.runs = RunWrite(@, <<deltaContent[sc.i]>>)]
    ELSE [sc EXCEPT !.messageBuf = Append(@, deltaContent[sc.i]), !.i = @ + 1,
                    !.runs = RunWrite(@, <<deltaContent[sc.i]>>)]

\* one pass of the body of "for i < len(deltaContent)"; sc.i <= Len(deltaContent)
ScanStep(deltaContent, sc) ==
    IF MatchesOpen(deltaContent, sc.i, sc.inThinking)
    THEN [sc EXCEPT !.inThinking = TRUE, !.i = @ + Len(OpenTag),
                    !.runs = RunFlip(@, TRUE), !.opens = @ + 1]
    ELSE IF MatchesClose(deltaContent, sc.i, sc.inThinking)
    THEN [sc EXCEPT !.inThinking = FALSE, !.i = @ + Len(CloseTag),
                    !.runs = RunFlip(@, FALSE), !.closes = @ + 1]
    ELSE IF HoldsBack(SliceFrom(deltaContent, sc.i), sc.inThinking)
    THEN \* buffer.WriteString(remaining); break
         [sc EXCEPT !.buffer = SliceFrom(deltaContent, sc.i),
                    !.i = Len(deltaContent) + 1]
    ELSE IF sc.inThinking
    THEN [sc EXCEPT !.reasoningBuf = Append(@, deltaContent[sc.i]), !.i = @ + 1,
                    !.runs = RunWrite(@, <<deltaContent[sc.i]>>)]
    ELSE [sc EXCEPT !.messageBuf = Append(@, deltaContent[sc.i]), !.i = @ + 1,
                    !.runs = RunWrite(@, <<deltaContent[sc.i]>>)]

RECURSIVE ScanLoop(_, _)
\* for i < len(deltaContent) { ... }
ScanLoop(deltaContent, sc) ==
    IF sc.i <= Len(deltaContent)
    THEN ScanLoop(deltaContent, ScanStep(deltaContent, sc))
    ELSE sc

\* a variant that sends the message chunk before the reasoning chunk
ChunkSends_messageFirst(sc) ==
    (IF Len(sc.messageBuf) > 0
     THEN <<[kind |-> "message", text |-> sc.messageBuf]>> ELSE <<>>)
    \o
    (IF Len(sc.reasoningBuf) > 0
     THEN <<[kind |-> "reasoning", text |-> sc.reasoningBuf]>> ELSE <<>>)

\* the conn.Send calls after the scan of one chunk, in the order of the code
ChunkSends(sc) ==
    (IF Len(sc.reasoningBuf) > 0
     THEN <<[kind |-> "reasoning", text |-> sc.reasoningBuf]>> ELSE <<>>)
    \o
    (IF Len(sc.messageBuf) > 0
     THEN <<[kind |-> "message", text |-> sc.messageBuf]>> ELSE <<>>)

\* a variant that drops what is left in the buffer
FlushSends_drop(buf, inThinking) == <<>>

\* the conn.Send call after the loop: what is left in the buffer
FlushSends(buf, inThinking) ==
    IF Len(buf) > 0
    THEN <<[kind |-> KindOf(inThinking), text |-> buf]>>
    ELSE <<>>

(***************************************************************************)
(* Events and payloads.  An Event is [Type, Data].  Data is the payload's  *)
(* bytes, kept in the form the two readers of it need:                     *)
(*   text  the leading bytes, which bytes.HasPrefix tests ("{" for a JSON  *)
(*         object),                                                        *)
(*   json  whether the bytes are a JSON object,                            *)
(*   obj   the object's top-level fields (a record), read by gjson and by  *)
(*         encoding/json.                                                  *)
(***************************************************************************)
NoObj == [none |-> TRUE]

TextData(text) == [json |-> FALSE, text |-> text, obj |-> NoObj]

JsonData(obj) == [json |-> TRUE, text |-> <<"{">>, obj |-> obj]

\* the json field names of ChatCompletionChunk
ChunkFields ==
    {"id", "object", "created", "model", "usage", "citations",
     "search_results", "choices"}

\* var nxt T: the zero ChatCompletionChunk (the fields the handler reads)
ZeroChunk == [id |-> "", choices |-> <<>>]

\* gjson.GetBytes(data, "error").Exists()
ErrorFieldExists(data) == data.json /\ "error" \in DOMAIN data.obj

\* a variant that reports the upstream message without the prefix
UpstreamError_bare(data) == <<data.obj.error>>

\* fmt.Errorf("received error while streaming: %s", ep.String())
UpstreamError(data) == <<"received error while streaming: ", data.obj.error>>

\* json.NewDecoder(bytes).DisallowUnknownFields(); dec.Decode(&nxt)
\* [err, val]: err is Nil and val the decoded chunk, or err is the failure.
DecodeChunk(data) ==
    IF ~data.json
    THEN [err |-> <<"json: cannot decode the payload">>, val |-> ZeroChunk]
    ELSE IF ~(DOMAIN data.obj \subseteq ChunkFields)
    THEN [err |-> <<"json: unknown field">>, val |-> ZeroChunk]
    ELSE [err |-> Nil,
          val |-> [id |-> IF "id" \in DOMAIN data.obj THEN data.obj.id ELSE "",
                   choices |-> IF "choices" \in DOMAIN data.obj
                               THEN data.obj.choices ELSE <<>>]]

\* fmt.Sprintf(`{ "event": %q, "data": %s }`, event, data)
WrappedData(event, data) ==
    IF data.json
    THEN JsonData([event |-> event, data |-> data.obj])
    ELSE TextData(<<"{">>)

(***************************************************************************)
(* The Decoder the stream pulls from, seen through its interface: queue is *)
(* the events the byte source still holds, end the error the source ends   *)
(* with (Nil at a clean end of file), err and evt what Err() and Event()   *)
(* return.  log (the events dispatched so far) and ended (Next has found   *)
(* the end of the source) are history fields.                              *)
(***************************************************************************)
DecoderNext(d) ==
    IF d.err # Nil
    THEN [ok |-> FALSE, d |-> d]
    ELSE IF Len(d.queue) > 0
    THEN [ok |-> TRUE,
          d |-> [d EXCEPT !.evt = Head(d.queue), !.queue = Tail(d.queue),
                          !.log = Append(@, Head(d.queue))]]
    ELSE [ok |-> FALSE, d |-> [d EXCEPT !.err = d.end, !.ended = TRUE]]

(***************************************************************************)
(* eventStreamDecoder, the Decoder that NewDecoder builds over the bytes   *)
(* of the response body.  d is                                             *)
(*   rest, end     the body: the bytes not yet read and the error the body *)
(*                 ends with (Nil for io.EOF)                              *)
(*   buf, scnErr   the bufio.Scanner: the bytes read and not yet consumed, *)
(*                 and the error of the last Read (EOF when the body ended)*)
(*   evt, err      the fields of the decoder                               *)
(*   event, data   the locals of Next                                      *)
(*   pc            "idle" between calls of Next, "reading" while Next is   *)
(*                 blocked in a Read of the body                           *)
(*   ret, calls, idle   the value of the last Next, the number of calls,   *)
(*                 and the number of calls that returned false             *)
(*   tokens, log, src   history: the lines scanned, the events dispatched, *)
(*                 and the bytes the body held at first                    *)
(* A Read returns bytes or the end of the body, never both at once.  Lines *)
(* stay far below the scanner's limit of 32 MiB, and bytes.Buffer.Write    *)
(* returns no error, so s.err is set from the scanner only.                *)
(***************************************************************************)
EOF == <<"EOF">>

\* bytes.IndexByte(data, c) with the model's 1-based index, 0 when absent
IndexByte(data, c) ==
    IF \E i \in 1..Len(data) : data[i] = c
    THEN CHOOSE i \in 1..Len(data) :
             data[i] = c /\ \A j \in 1..(i - 1) : data[j] # c
    ELSE 0

\* bufio's dropCR
dropCR(data) ==
    IF Len(data) > 0 /\ data[Len(data)] = "\r"
    THEN SubSeq(data, 1, Len(data) - 1)
    ELSE data

\* a variant that takes whatever one Read delivered for a line
ScanLines_perRead(data, atEOF) ==
    IF Len(data) = 0
    THEN [advance |-> 0, has |-> FALSE, token |-> <<>>]
    ELSE IF IndexByte(data, "\n") > 0
    THEN [advance |-> IndexByte(data, "\n"), has |-> TRUE,
          token |-> dropCR(SubSeq(data, 1, IndexByte(data, "\n") - 1))]
    ELSE [advance |-> Len(data), has |-> TRUE, token |-> dropCR(data)]

\* bufio.ScanLines, the split function of the scanner: has is token != nil
ScanLines(data, atEOF) ==
    IF atEOF /\ Len(data) = 0
    THEN [advance |-> 0, has |-> FALSE, token |-> <<>>]
    ELSE IF IndexByte(data, "\n") > 0
    THEN [advance |-> IndexByte(data, "\n"), has |-> TRUE,
          token |-> dropCR(SubSeq(data, 1, IndexByte(data, "\n") - 1))]
    ELSE IF atEOF
    THEN [advance |-> Len(data), has |-> TRUE, token |-> dropCR(data)]
    ELSE [advance |-> 0, has |-> FALSE, token |-> <<>>]

\* s.scn.Err(): io.EOF is not an error
ScannerErr(d) == IF d.scnErr = EOF THEN Nil ELSE d.scnErr

\* bytes.Cut(txt, []byte(":"))
Cut(txt, sep) ==
    IF IndexByte(txt, sep) > 0
    THEN [before |-> SubSeq(txt, 1, IndexByte(txt, sep) - 1),
          after |-> SliceFrom(txt, IndexByte(txt, sep) + 1)]
    ELSE [before |-> txt, after |-> <<>>]

\* if len(value) > 0 && value[0] == ' ' { value = value[1:] }
ConsumeSpace(value) ==
    IF Len(value) > 0 /\ value[1] = " " THEN SliceFrom(value, 2) ELSE value

EventField == <<"e", "v", "e", "n", "t">>

DataField == <<"d", "a", "t", "a">>

\* a variant that takes every line with a field name for a data line
FieldCase_allData(name) ==
    IF name = <<>> THEN "comment"
    ELSE IF name = EventField THEN "event"
    ELSE "data"

\* switch string(name)
FieldCase(name) ==
    IF name = <<>> THEN "comment"
    ELSE IF name = EventField THEN "event"
    ELSE IF name = DataField THEN "data"
    ELSE "other"

\* a variant that appends the value without the line feed
WriteData_bare(data, value) == data \o value

\* data.Write(value); data.WriteRune('\n')
WriteData(data, value) == data \o value \o <<"\n">>

\* a variant that keeps what the previous call of Next had gathered
StartRecord_keeps(d) == d

\* event := ""; data := bytes.NewBuffer(nil)
StartRecord(d) == [d EXCEPT !.event = <<>>, !.data = <<>>]

\* s.evt = Event{Type: event, Data: data.Bytes()}; return true
Dispatch(d) ==
    [d EXCEPT !.evt = [Type |-> d.event, Data |-> d.data],
              !.log = Append(@, [Type |-> d.event, Data |-> d.data]),
              !.pc = "idle", !.ret = TRUE]

\* a variant that returns false without looking at the scanner's error
AtEndOfScan_dropsErr(d) ==
    [d EXCEPT !.pc = "idle", !.ret = FALSE, !.idle = @ + 1]

\* a variant that dispatches what was gathered when the body ends
AtEndOfScan_flushes(d) ==
    IF d.data # <<>>
    THEN Dispatch(d)
    ELSE [d EXCEPT !.err = IF ScannerErr(d) # Nil THEN ScannerErr(d) ELSE @,
                   !.pc = "idle", !.ret = FALSE, !.idle = @ + 1]

\* if s.scn.Err() != nil { s.err = s.scn.Err() }; return false
AtEndOfScan(d) ==
    [d EXCEPT !.err = IF ScannerErr(d) # Nil THEN ScannerErr(d) ELSE @,
              !.pc = "idle", !.ret = FALSE, !.idle = @ + 1]

RECURSIVE eventStreamDecoderLoop(_)
\* the body of the for loop for the line txt
eventStreamDecoderLine(d, txt) ==
    IF Len(txt) = 0
    THEN Dispatch(d)
    ELSE LET name == Cut(txt, ":").before
             value == ConsumeSpace(Cut(txt, ":").after)
         IN  IF FieldCase(name) = "event"
             THEN eventStreamDecoderLoop([d EXCEPT !.event = value])
             ELSE IF FieldCase(name) = "data"
             THEN eventStreamDecoderLoop([d EXCEPT !.data = WriteData(@, value)])
             ELSE eventStreamDecoderLoop(d)

\* for s.scn.Scan() { ... }: Scan hands over the next line of the buffer,
\* returns false at the end of the body, and reads the body otherwise
eventStreamDecoderLoop(d) ==
    LET atEOF == d.scnErr # Nil
        split == ScanLines(d.buf, atEOF)
    IN  IF (Len(d.buf) > 0 \/ atEOF) /\ split.has
        THEN eventStreamDecoderLine(
                 [d EXCEPT !.buf = SliceFrom(@, split.advance + 1),
                           !.tokens = Append(@, split.token)],
                 split.token)
        ELSE IF atEOF
        THEN AtEndOfScan([d EXCEPT !.buf = <<>>])
        ELSE [d EXCEPT !.pc = "reading"]

\* func (s *eventStreamDecoder) Next() bool, up to its return or to the
\* first Read that blocks
eventStreamDecoderNext(d) ==
    IF d.err # Nil
    THEN [d EXCEPT !.calls = @ + 1, !.ret = FALSE, !.idle = @ + 1]
    ELSE eventStreamDecoderLoop(StartRecord([d EXCEPT !.calls = @ + 1]))

\* the blocked Read returns the next k bytes of the body, or its end
ReadReturns(d, k) ==
    IF Len(d.rest) = 0
    THEN [d EXCEPT !.scnErr = IF d.end = Nil THEN EOF ELSE d.end]
    ELSE [d EXCEPT !.buf = @ \o SubSeq(d.rest, 1, k),
                   !.rest = SliceFrom(@, k + 1)]

\* &eventStreamDecoder{rc: res.Body, scn: scn} over a body of the bytes src
NewEventStreamDecoder(src, end) ==
    [rest |-> src, end |-> end, buf |-> <<>>, scnErr |-> Nil,
     evt |-> [Type |-> <<>>, Data |-> <<>>], err |-> Nil,
     event |-> <<>>, data |-> <<>>, pc |-> "idle",
     ret |-> FALSE, calls |-> 0, idle |-> 0,
     tokens |-> <<>>, log |-> <<>>, src |-> src]

(***************************************************************************)
(* Stream[T]: s is [cur, err, done].  The operators return [ok, s, d]:     *)
(* the value of Next() and the stream and decoder after the call.          *)
(***************************************************************************)
\* a variant that wraps every event that has a type
UsesWrapper_anyType(type) == type # <<>>

\* the else branch of: Type == "" || !strings.HasPrefix(Type, "thread.")
UsesWrapper(type) == ~(type = <<>> \/ ~HasPrefix(type, ThreadPrefix))

\* a variant that keeps the decode error in a local and leaves s.err alone
StreamDecodeEvent_losesError(s, d) ==
    IF ErrorFieldExists(d.evt.Data)
    THEN [ok |-> FALSE, s |-> [s EXCEPT !.err = UpstreamError(d.evt.Data)], d |-> d]
    ELSE LET data == IF UsesWrapper(d.evt.Type)
                     THEN WrappedData(d.evt.Type, d.evt.Data)
                     ELSE d.evt.Data
             dec == DecodeChunk(data)
         IN  IF dec.err # Nil
             THEN [ok |-> FALSE, s |-> s, d |-> d]
             ELSE [ok |-> TRUE, s |-> [s EXCEPT !.cur = dec.val], d |-> d]

\* the body of the for loop for an event read before [DONE]
StreamDecodeEvent(s, d) ==
    IF ErrorFieldExists(d.evt.Data)
    THEN [ok |-> FALSE, s |-> [s EXCEPT !.err = UpstreamError(d.evt.Data)], d |-> d]
    ELSE LET data == IF UsesWrapper(d.evt.Type)
                     THEN WrappedData(d.evt.Type, d.evt.Data)
                     ELSE d.evt.Data
             dec == DecodeChunk(data)
         IN  IF dec.err # Nil
             THEN [ok |-> FALSE, s |-> [s EXCEPT !.err = dec.err], d |-> d]
             ELSE [ok |-> TRUE, s |-> [s EXCEPT !.cur = dec.val], d |-> d]

RECURSIVE StreamLoop(_, _)
\* s.done = true; continue
StreamSeesDone(s, d) == StreamLoop([s EXCEPT !.done = TRUE], d)

\* a variant that decodes the events that follow [DONE]
StreamSkipsEvent_never(s) == FALSE

\* if s.done { continue }
StreamSkipsEvent(s) == s.done

\* a variant that returns false without taking over the decoder's error
StreamLoop_dropsDecoderErr(s, d) ==
    LET n == DecoderNext(d) IN
    IF ~n.ok
    THEN [ok |-> FALSE, s |-> s, d |-> n.d]
    ELSE IF StreamSkipsEvent(s)
    THEN StreamLoop(s, n.d)
    ELSE IF HasPrefix(n.d.evt.Data.text, DoneSentinel)
    THEN StreamSeesDone(s, n.d)
    ELSE StreamDecodeEvent(s, n.d)

\* for s.decoder.Next() { ... }; s.err = s.decoder.Err(); return false
StreamLoop(s, d) ==
    LET n == DecoderNext(d) IN
    IF ~n.ok
    THEN [ok |-> FALSE, s |-> [s EXCEPT !.err = n.d.err], d |-> n.d]
    ELSE IF StreamSkipsEvent(s)
    THEN StreamLoop(s, n.d)
    ELSE IF HasPrefix(n.d.evt.Data.text, DoneSentinel)
    THEN StreamSeesDone(s, n.d)
    ELSE StreamDecodeEvent(s, n.d)

\* a variant without the check of s.err at the top of Next
StreamNext_ignoresErr(s, d) == StreamLoop(s, d)

\* func (s *Stream[T]) Next() bool
StreamNext(s, d) ==
    IF s.err # Nil
    THEN [ok |-> FALSE, s |-> s, d |-> d]
    ELSE StreamLoop(s, d)

(***************************************************************************)
(* The upstream: the events the decoder will deliver.                      *)
(***************************************************************************)
\* the bounds of the model
MaxTokens == 2

MaxCuts == 2

MaxEvents == 3

MaxCalls == 4

ZeroEvent == [Type |-> <<>>, Data |-> TextData(<<>>)]

\* a chunk whose first choice carries delta.content
ChunkEvent(content) ==
    [Type |-> <<>>,
     Data |-> JsonData([id |-> "chunk",
                        choices |-> <<[delta |-> [content |-> content]]>>])]

\* a chunk without choices, and one whose delta has no content
NoChoicesEvent == [Type |-> <<>>, Data |-> JsonData([id |-> "usage", choices |-> <<>>])]

NoContentEvent == ChunkEvent(<<>>)

DoneEvent == [Type |-> <<>>, Data |-> TextData(DoneSentinel \o <<"\n">>)]

ErrorEvent(msg) == [Type |-> <<>>, Data |-> JsonData([error |-> msg])]

UnknownFieldEvent ==
    [Type |-> <<>>, Data |-> JsonData([id |-> "chunk", surprise |-> "1"])]

GarbageEvent == [Type |-> <<>>, Data |-> TextData(<<"o", "o", "p", "s", "\n">>)]

EmptyEvent == [Type |-> <<>>, Data |-> TextData(<<>>)]

Typed(type, e) == [e EXCEPT !.Type = type]

MessageType == <<"m", "e", "s", "s", "a", "g", "e">>

ThreadType == ThreadPrefix \o <<"r", "u", "n">>

ChunkEvents(fs) == [n \in 1..Len(fs) |-> ChunkEvent(fs[n])]

IsContentChunk(e) ==
    /\ e.Data.json
    /\ DOMAIN e.Data.obj = {"id", "choices"}
    /\ Len(e.Data.obj.choices) > 0

ContentOf(e) == e.Data.obj.choices[1].delta.content

\* the upstream delivers the head chunk's text in two events, cut after k bytes
CutHead(queue, k) ==
    <<ChunkEvent(SubSeq(ContentOf(Head(queue)), 1, k)),
      ChunkEvent(SliceFrom(ContentOf(Head(queue)), k + 1))>> \o Tail(queue)

\* the pieces the texts of the model are built from
Tokens ==
    {<<"a">>, OpenTag, CloseTag, <<"<", "t", "h">>, <<"<", "/">>}

RECURSIVE TextsUpTo(_)
TextsUpTo(n) ==
    IF n = 0 THEN {<<>>}
    ELSE LET shorter == TextsUpTo(n - 1)
         IN  shorter \cup {t \o tok : t \in shorter, tok \in Tokens}

Texts == TextsUpTo(MaxTokens) \ {<<>>}

FragsSplitOpen ==
    <<<<"a", "<", "t", "h", "i">>,
      <<"n", "k", ">", "b", "<", "/", "t", "h", "i", "n", "k", ">", "c">>>>

FragsWhole ==
    <<<<"a", "<", "t", "h", "i", "n", "k", ">", "b", "<", "/", "t", "h", "i",
        "n", "k", ">", "c">>>>

FragsUnits ==
    <<<<"X">>,
      <<"<">>,
      <<"t">>,
      <<"h">>,
      <<"i">>,
      <<"n">>,
      <<"k">>,
      <<">">>,
      <<"Y">>,
      <<"<">>,
      <<"/">>,
      <<"t">>,
      <<"h">>,
      <<"i">>,
      <<"n">>,
      <<"k">>,
      <<">">>,
      <<"Z">>>>

FragsNested ==
    <<<<"<", "t", "h", "i", "n", "k", ">", "a", "<", "t", "h", "i", "n", "k",
        ">", "b", "<", "/", "t", "h", "i", "n", "k", ">", "c">>>>

FragsTrailing ==
    <<<<"d", "o", "n", "e", "<", "t", "h">>>>

FragsManyPieces ==
    <<<<"H", "i", " ", "<">>,
      <<"t", "h">>,
      <<"i", "n">>,
      <<"k", ">", "w", "h", "y", "<", "/">>,
      <<"t", "h">>,
      <<"i", "n">>,
      <<"k", ">", " ", "o", "k">>>>

FragsTwoBlocks ==
    <<<<"A", "<", "t", "h", "i">>,
      <<"n", "k", ">", "R", "1", "<", "/", "t", "h", "i", "n", "k", ">", "B",
        "<", "t", "h", "i", "n", "k", ">", "R">>,
      <<"2", "<", "/", "t", "h", "i", "n", "k", ">", "C">>>>

FragsJoined ==
    <<<<"<", "t", "h", "<", "t", "h", "i", "n", "k", ">", "x", "<", "/", "t",
        "h", "i", "n", "k", ">", "i", "n", "k", ">">>>>

\* streams of fragments taken from the tests and from the examples of the
\* specification
NamedFrags ==
    {FragsSplitOpen, FragsWhole, FragsUnits, FragsNested, FragsTrailing,
     FragsManyPieces, FragsTwoBlocks, FragsJoined}

\* a tag split around chunks that carry no text
SkippingEvents ==
    <<ChunkEvent(<<"<", "t", "h", "i">>), NoContentEvent,
      ChunkEvent(<<"n", "k", ">", "r", "<", "/", "t", "h">>), NoChoicesEvent,
      ChunkEvent(<<"i", "n", "k", ">", "m">>)>>

\* what may follow the text, and how the byte source ends
Tails ==
    {<<>>, <<DoneEvent>>, <<DoneEvent, ChunkEvent(<<"z">>)>>,
     <<ErrorEvent("x")>>, <<UnknownFieldEvent>>}

ReadError == <<"read: connection reset">>

Ends == {Nil, ReadError}

\* [queue, end] of the decoder when StreamChatCompletions starts to read
HandlerInputs ==
    {[queue |-> ChunkEvents(<<t>>), end |-> e] : t \in Texts, e \in Ends}
    \cup
    {[queue |-> ChunkEvents(fs), end |-> Nil] : fs \in NamedFrags}
    \cup
    {[queue |-> ChunkEvents(fs) \o tail, end |-> e] :
        fs \in {FragsSplitOpen, FragsTrailing}, tail \in Tails, e \in Ends}
    \cup
    {[queue |-> SkippingEvents \o tail, end |-> e] : tail \in Tails, e \in Ends}

(***************************************************************************)
(* The suffix-probe variant of the splitter (extractPartialTag and         *)
(* extractThinkTags with the carry loop of its StreamChatCompletions).     *)
(* A response is [kind, text]: kind "completion" for a Completion with the *)
(* text as its content, "reasoning" for a Reasoning with the text as the   *)
(* thought of its one step.                                                *)
(***************************************************************************)
\* strings.HasSuffix(s, suffix)
HasSuffix(s, suffix) ==
    /\ Len(suffix) <= Len(s)
    /\ SubSeq(s, Len(s) - Len(suffix) + 1, Len(s)) = suffix

\* strings.Index(s, sub) with the model's 1-based index; 0 stands for Go's -1
Index(s, sub) ==
    IF Contains(s, sub)
    THEN CHOOSE i \in 1..(Len(s) - Len(sub) + 1) :
             /\ SubSeq(s, i, i + Len(sub) - 1) = sub
             /\ \A j \in 1..(i - 1) : SubSeq(s, j, j + Len(sub) - 1) # sub
    ELSE 0

\* the white space of unicode.IsSpace that the model's texts are written in
WhiteSpace == {" ", "\n", "\t", "\r"}

RECURSIVE TrimLeft(_)
TrimLeft(s) ==
    IF Len(s) > 0 /\ Head(s) \in WhiteSpace THEN TrimLeft(Tail(s)) ELSE s

RECURSIVE TrimRight(_)
TrimRight(s) ==
    IF Len(s) > 0 /\ s[Len(s)] \in WhiteSpace
    THEN TrimRight(SubSeq(s, 1, Len(s) - 1))
    ELSE s

\* a variant that trims nothing
TrimSpace_none(s) == s

\* strings.TrimSpace(s)
TrimSpace(s) == TrimRight(TrimLeft(s))

openTagPrefixes ==
    <<<<"<", "t", "h", "i", "n", "k">>,
      <<"<", "t", "h", "i", "n">>,
      <<"<", "t", "h", "i">>,
      <<"<", "t", "h">>,
      <<"<", "t">>,
      <<"<">>>>

closeTagPrefixes ==
    <<<<"<", "/", "t", "h", "i", "n", "k">>,
      <<"<", "/", "t", "h", "i", "n">>,
      <<"<", "/", "t", "h", "i">>,
      <<"<", "/", "t", "h">>,
      <<"<", "/", "t">>,
      <<"<", "/">>,
      <<"<">>>>

\* which list extractPartialTag probes
prefixesToCheck(content, inThinkTag) ==
    IF inThinkTag
    THEN closeTagPrefixes
    ELSE IF Contains(content, OpenTag)
         THEN closeTagPrefixes
         ELSE openTagPrefixes

RECURSIVE FirstSuffix(_, _)
\* for _, prefix := range prefixes { if strings.HasSuffix(content, prefix) ... }
FirstSuffix(content, prefixes) ==
    IF prefixes = <<>> THEN <<>>
    ELSE IF HasSuffix(content, Head(prefixes)) THEN Head(prefixes)
    ELSE FirstSuffix(content, Tail(prefixes))

\* func (s *PerplexityService) extractPartialTag(content, inThinkTag) string
extractPartialTag(content, inThinkTag) ==
    IF Len(content) = 0
    THEN <<>>
    ELSE FirstSuffix(content, prefixesToCheck(content, inThinkTag))

\* a variant that appends a Completion for blank text too
AppendCompletion_blankToo(responses, text) ==
    IF text # <<>>
    THEN Append(responses, [kind |-> "completion", text |-> text])
    ELSE responses

\* a Completion response is appended for text that is not blank
AppendCompletion(responses, text) ==
    IF text # <<>> /\ TrimSpace(text) # <<>>
    THEN Append(responses, [kind |-> "completion", text |-> text])
    ELSE responses

\* a Reasoning response is appended for a trimmed think text that is not empty
AppendReasoning(responses, thinkText) ==
    IF thinkText # <<>>
    THEN Append(responses, [kind |-> "reasoning", text |-> thinkText])
    ELSE responses

\* a variant of thinkContent.WriteString that keeps the last piece only
WriteThink_lastOnly(thinkContent, piece) == piece

\* thinkContent.WriteString(piece)
WriteThink(thinkContent, piece) == thinkContent \o piece

RECURSIVE extractThinkTagsLoop(_, _)
\* the loop of extractThinkTags over what is left of content; st holds
\* *inThinkTag, *thinkContent and the responses appended so far
extractThinkTagsLoop(content, st) ==
    IF Len(content) = 0 THEN st
    ELSE IF ~st.inThinkTag
    THEN LET thinkStart == Index(content, OpenTag)
         IN  IF thinkStart = 0
             THEN [st EXCEPT !.responses = AppendCompletion(@, content)]
             ELSE extractThinkTagsLoop(
                      SliceFrom(content, thinkStart + Len(OpenTag)),
                      [st EXCEPT
                          !.responses =
                              AppendCompletion(@, SubSeq(content, 1, thinkStart - 1)),
                          !.inThinkTag = TRUE,
                          !.thinkContent = <<>>])
    ELSE LET thinkEnd == Index(content, CloseTag)
         IN  IF thinkEnd = 0
             THEN [st EXCEPT !.thinkContent = WriteThink(@, content)]
             ELSE LET written ==
                          WriteThink(st.thinkContent,
                                     SubSeq(content, 1, thinkEnd - 1))
                  IN  extractThinkTagsLoop(
                          SliceFrom(content, thinkEnd + Len(CloseTag)),
                          [st EXCEPT
                              !.thinkContent = written,
                              !.responses =
                                  AppendReasoning(@, TrimSpace(written)),
                              !.inThinkTag = FALSE])

\* func (s *PerplexityService) extractThinkTags(content, inThinkTag,
\* thinkContent, ...): the responses of the call and the two locals after it
extractThinkTags(content, inThinkTag, thinkContent) ==
    extractThinkTagsLoop(content,
        [inThinkTag |-> inThinkTag, thinkContent |-> thinkContent,
         responses |-> <<>>])

\* the locals of the variant's StreamChatCompletions before its loop, with the
\* text the upstream is going to deliver; drive says who calls the functions:
\* "handler" the carry loop, "calls" a caller of extractThinkTags alone,
\* "probe" a caller of extractPartialTag alone, "off" nobody
NewVariant(text, drive) ==
    [drive |-> drive, text |-> text, rest |-> text, given |-> <<>>,
     inThinkTag |-> FALSE, thinkContent |-> <<>>, partialTag |-> <<>>,
     responses |-> <<>>, last |-> <<>>, lastContent |-> <<>>,
     probe |-> [content |-> <<>>, inThinkTag |-> FALSE, result |-> <<>>],
     pc |-> "running", ret |-> Nil]

NoVariant == NewVariant(<<>>, "off")

\* no invocation of StreamChatCompletions is running side by side
NoInvocations == <<>>

(***************************************************************************)
(* State.                                                                  *)
(*   stream, dec   the Stream[ChatCompletionChunk] and its Decoder         *)
(*   nextRet       what the last call of stream.Next() returned            *)
(*   nextCalls     the number of calls of stream.Next() so far             *)
(*   pc            "streaming" while StreamChatCompletions is in its loop, *)
(*                 "returned" after it returned, "direct" when the stream  *)
(*                 is driven by its caller without the handler             *)
(*   ret           the error StreamChatCompletions returned (Nil: success) *)
(*   inThinking, buffer   the splitter's locals that outlive one chunk     *)
(*   sent          the messages handed to conn.Send, in call order         *)
(*   frags         history: the delta contents scanned so far              *)
(*   hist          history: [runs, opens, closes] of the scan, failure of  *)
(*                 conn.Send                                               *)
(*   cuts          how often the upstream may still cut a chunk in two     *)
(*   bodyClosed    whether resp.Body was closed                            *)
(*   esd           the eventStreamDecoder over the bytes of the body       *)
(*   sp            the suffix-probe variant: its locals, input and history *)
(*   invs          two invocations of StreamChatCompletions side by side   *)
(***************************************************************************)
VARIABLES stream, dec, nextRet, nextCalls, pc, ret, inThinking, buffer, sent,
          frags, hist, cuts, bodyClosed, esd, sp, invs

streamVars == <<stream, dec, nextRet, nextCalls>>

handlerVars ==
    <<pc, ret, inThinking, buffer, sent, frags, hist, cuts, bodyClosed>>

vars == <<stream, dec, nextRet, nextCalls, pc, ret, inThinking, buffer, sent,
          frags, hist, cuts, bodyClosed, esd, sp, invs>>

\* the error conn.Send returns when the client is gone
SendError == <<"send: transport is closing">>

\* a variant of the handler that goes on to return nil after a failed send
SendFailure_swallowed(err) == Nil

\* pbv1.ErrorUpstreamApiError(format, err.Error()); the two formats of the
\* handler are written here in English
SendFailure(err) == <<"UPSTREAM_API_ERROR", "stream send error: ">> \o err

StreamFailure(err) == <<"UPSTREAM_API_ERROR", "stream processing error: ">> \o err

StatusFailure == <<"UPSTREAM_API_ERROR", "API returned an error status code">>

\* http.StatusOK
StatusOK == 200

\* the status codes the upstream answers with in the model
StatusCodes == {200, 401, 500}

\* func (s *eventStreamDecoder) Close() error { return s.rc.Close() }
eventStreamDecoderClose(closed) == TRUE

\* a variant that leaves the decoder alone
StreamClose_noCascade(closed) == closed

\* func (s *Stream[T]) Close() error: the decoder is not nil, NewDecoder was
\* given a response with a body
StreamClose(closed) == eventStreamDecoderClose(closed)

\* NewStream[ChatCompletionChunk](decoder, err)
NewStream(err) == [cur |-> ZeroChunk, err |-> err, done |-> FALSE]

\* NewDecoder(resp) over a byte source that holds the events of queue
NewDecoder(input) ==
    [queue |-> input.queue, end |-> input.end, err |-> Nil, evt |-> ZeroEvent,
     log |-> <<>>, ended |-> FALSE]

\* the record of a failed conn.Send: its error, the number of messages handed
\* to conn.Send and of calls of stream.Next() when it failed
FailedSend(err, sends, calls) == [err |-> err, sends |-> sends, calls |-> calls]

NoFailedSend == FailedSend(Nil, 0, 0)

HistStart ==
    [runs |-> <<[kind |-> "message", text |-> <<>>]>>, opens |-> 0, closes |-> 0,
     failure |-> NoFailedSend]

\* StreamChatCompletions after step 7: the response is open, the stream made
Init ==
    /\ \E input \in HandlerInputs : dec = NewDecoder(input)
    /\ stream = NewStream(Nil)
    /\ nextRet = FALSE
    /\ nextCalls = 0
    /\ pc = "responded"
    /\ ret = Nil
    /\ inThinking = FALSE
    /\ buffer = <<>>
    /\ sent = <<>>
    /\ frags = <<>>
    /\ hist = HistStart
    /\ cuts = MaxCuts
    /\ bodyClosed = FALSE
    /\ esd = NewEventStreamDecoder(<<>>, Nil)
    /\ sp = NoVariant
    /\ invs = NoInvocations

\* The upstream decides how the text reaches the decoder: before a call of
\* stream.Next() it may deliver the next chunk's text in two events.
Delivered(k) ==
    IF k = 0 THEN dec ELSE [dec EXCEPT !.queue = CutHead(dec.queue, k)]

\* the sizes k the upstream may cut the next chunk at; 0 is no cut
CutSizes ==
    IF cuts > 0 /\ Len(dec.queue) > 0 /\ IsContentChunk(Head(dec.queue))
    THEN {0} \cup 1..(Len(ContentOf(Head(dec.queue))) - 1)
    ELSE {0}

CutsAfter(k) == IF k = 0 THEN cuts ELSE cuts - 1

\* len(chunk.Choices) == 0, or chunk.Choices[0].Delta.Content == ""
IsSkipped(chunk) ==
    IF Len(chunk.choices) = 0
    THEN TRUE
    ELSE chunk.choices[1].delta.content = <<>>

\* http.DefaultClient.Do has returned the response: a status other than 200
\* returns an error, and the deferred resp.Body.Close() runs; with 200 the
\* decoder and the stream are built and the loop starts.
CheckStatus(status) ==
    /\ pc = "responded"
    /\ IF status # StatusOK
       THEN /\ pc' = "returned"
            /\ ret' = StatusFailure
            /\ bodyClosed' = TRUE
       ELSE /\ pc' = "streaming"
            /\ UNCHANGED <<ret, bodyClosed>>
    /\ UNCHANGED <<streamVars, inThinking, buffer, sent, frags, hist, cuts, esd, sp, invs>>

\* a variant that has emptied the buffer before it tests the chunk
BufferAfterContinue_reset(buf) == <<>>

\* the buffer after a continue: buffer.Reset() comes after both tests
BufferAfterContinue(buf) == buf

\* One pass of "for stream.Next()" that ends at a continue: the chunk has no
\* choices or no delta content.
SkipChunk(k) ==
    /\ pc = "streaming"
    /\ k \in CutSizes
    /\ LET r == StreamNext(stream, Delivered(k)) IN
       /\ r.ok
       /\ IsSkipped(r.s.cur)
       /\ stream' = r.s
       /\ dec' = r.d
       /\ nextRet' = TRUE
       /\ nextCalls' = nextCalls + 1
       /\ cuts' = CutsAfter(k)
       /\ buffer' = BufferAfterContinue(buffer)
       /\ UNCHANGED <<pc, ret, inThinking, sent, frags, hist, bodyClosed, esd, sp, invs>>

\* One pass of "for stream.Next()" over a chunk with delta content: prepend
\* the buffer, scan, send the reasoning chunk and then the message chunk.
\* failed is the number of the conn.Send call that fails, 0 when none does.
\* A return runs the deferred stream.Close().
HandleChunk(k, failed) ==
    /\ pc = "streaming"
    /\ k \in CutSizes
    /\ LET r == StreamNext(stream, Delivered(k)) IN
       /\ r.ok
       /\ ~IsSkipped(r.s.cur)
       /\ LET content == r.s.cur.choices[1].delta.content
              deltaContent == IF Len(buffer) > 0 THEN buffer \o content ELSE content
              sc == ScanLoop(deltaContent, ScanStart(inThinking, hist))
              sends == ChunkSends(sc)
          IN  /\ failed <= Len(sends)
              /\ stream' = r.s
              /\ dec' = r.d
              /\ nextRet' = TRUE
              /\ nextCalls' = nextCalls + 1
              /\ cuts' = CutsAfter(k)
              /\ inThinking' = sc.inThinking
              /\ buffer' = sc.buffer
              /\ frags' = Append(frags, content)
              /\ hist' = [runs |-> sc.runs, opens |-> sc.opens, closes |-> sc.closes,
                           failure |->
                               IF failed = 0 THEN NoFailedSend
                               ELSE FailedSend(SendError, Len(sent) + failed,
                                               nextCalls + 1)]
              /\ IF failed = 0
                 THEN /\ sent' = sent \o sends
                      /\ UNCHANGED <<pc, ret, bodyClosed>>
                 ELSE /\ sent' = sent \o SubSeq(sends, 1, failed)
                      /\ pc' = "returned"
                      /\ ret' = SendFailure(SendError)
                      /\ bodyClosed' = StreamClose(bodyClosed)
              /\ UNCHANGED <<esd, sp, invs>>

\* stream.Next() returns false: flush the buffer, then report stream.Err();
\* the return runs the deferred stream.Close().
Finish(k, failed) ==
    /\ pc = "streaming"
    /\ k \in CutSizes
    /\ LET r == StreamNext(stream, Delivered(k))
           sends == FlushSends(buffer, inThinking)
       IN  /\ ~r.ok
           /\ failed <= Len(sends)
           /\ stream' = r.s
           /\ dec' = r.d
           /\ nextRet' = FALSE
           /\ nextCalls' = nextCalls + 1
           /\ cuts' = CutsAfter(k)
           /\ sent' = sent \o sends
           /\ hist' = [hist EXCEPT
                  !.runs = IF Len(sends) > 0 THEN RunWrite(@, buffer) ELSE @,
                  !.failure =
                      IF failed = 0 THEN NoFailedSend
                      ELSE FailedSend(SendError, Len(sent) + failed,
                                      nextCalls + 1)]
           /\ pc' = "returned"
           /\ ret' = IF failed > 0 THEN SendFailure(SendError)
                     ELSE IF r.s.err # Nil THEN StreamFailure(r.s.err)
                     ELSE Nil
           /\ bodyClosed' = StreamClose(bodyClosed)
           /\ UNCHANGED <<inThinking, buffer, frags, esd, sp, invs>>

Next ==
    \/ \E status \in StatusCodes : CheckStatus(status)
    \/ \E k \in CutSizes : SkipChunk(k)
    \/ \E k \in CutSizes, failed \in 0..2 : HandleChunk(k, failed)
    \/ \E k \in CutSizes, failed \in 0..1 : Finish(k, failed)

Spec == Init /\ [][Next]_vars

(***************************************************************************)
(* The stream driven directly, as the tests drive it: any events, any end  *)
(* of the source, any error given to NewStream, and calls of Next() that   *)
(* go on after it returned false.                                          *)
(***************************************************************************)
EventKinds ==
    {ChunkEvent(<<"a">>), ChunkEvent(<<"b">>), NoChoicesEvent, DoneEvent,
     ErrorEvent("x"), ErrorEvent("quota"), UnknownFieldEvent, GarbageEvent,
     EmptyEvent, Typed(MessageType, ChunkEvent(<<"a">>)),
     Typed(ThreadType, ChunkEvent(<<"a">>)), Typed(ThreadType, ErrorEvent("x"))}

RECURSIVE EventSeqs(_)
EventSeqs(n) ==
    IF n = 0 THEN {<<>>}
    ELSE LET shorter == EventSeqs(n - 1)
         IN  shorter \cup {Append(q, e) : q \in shorter, e \in EventKinds}

GivenError == <<"request failed">>

InitStream ==
    /\ \E q \in EventSeqs(MaxEvents), e \in Ends :
          dec = NewDecoder([queue |-> q, end |-> e])
    /\ \E err \in {Nil, GivenError} : stream = NewStream(err)
    /\ nextRet = FALSE
    /\ nextCalls = 0
    /\ pc = "direct"
    /\ ret = Nil
    /\ inThinking = FALSE
    /\ buffer = <<>>
    /\ sent = <<>>
    /\ frags = <<>>
    /\ hist = HistStart
    /\ cuts = 0
    /\ bodyClosed = FALSE
    /\ esd = NewEventStreamDecoder(<<>>, Nil)
    /\ sp = NoVariant
    /\ invs = NoInvocations

\* a call of stream.Next()
NextCall ==
    /\ pc = "direct"
    /\ nextCalls < MaxCalls
    /\ LET r == StreamNext(stream, dec) IN
       /\ stream' = r.s
       /\ dec' = r.d
       /\ nextRet' = r.ok
       /\ nextCalls' = nextCalls + 1
    /\ UNCHANGED <<handlerVars, esd, sp, invs>>

NextStream == NextCall

SpecStream == InitStream /\ [][NextStream]_vars

(***************************************************************************)
(* eventStreamDecoder.Next called directly over a body of bytes that       *)
(* arrives in physical reads of any size.                                  *)
(***************************************************************************)
\* the most lines of a generated body
MaxLines == 3

\* the most calls of Next that return false
MaxIdleCalls == 2

LineEventA == EventField \o <<":", " ", "a">>

LineDataX == DataField \o <<":", " ", "x">>

LineDataY == DataField \o <<":", "y">>

LineComment == <<":", "c">>

LineOther == <<"i", "d", ":", "1">>

LineKinds == {LineEventA, LineDataX, LineDataY, LineComment, LineOther, <<>>}

RECURSIVE LineSeqs(_)
LineSeqs(n) ==
    IF n = 0 THEN {<<>>}
    ELSE LET shorter == LineSeqs(n - 1)
         IN  shorter \cup {Append(ls, l) : ls \in shorter, l \in LineKinds}

RECURSIVE BodyOf(_)
\* the bytes of the lines, each ended by a line feed
BodyOf(lines) ==
    IF lines = <<>> THEN <<>>
    ELSE Head(lines) \o <<"\n">> \o BodyOf(Tail(lines))

\* the body without its last line feed
Unterminated(body) ==
    IF body = <<>> THEN body ELSE SubSeq(body, 1, Len(body) - 1)

\* two records, the second with a type of its own and none of the data of
\* the first
BodyTwoRecords ==
    BodyOf(<<LineEventA, LineDataX, <<>>, LineDataY, LineDataX, <<>>>>)

\* a record of two data lines cut by a comment and an unknown field, then a
\* partial record
BodyIgnoredLines ==
    BodyOf(<<LineDataX, LineComment, LineOther, LineDataY, <<>>, LineEventA>>)

\* lines that end with CR LF, the last blank line without its LF
BodyCarriageReturns ==
    <<"d", "a", "t", "a", ":", "x", "\r", "\n", "\r", "\n",
      "d", "a", "t", "a", ":", "y", "\r", "\n", "\r">>

\* a data line without a colon, a value with two spaces and a colon, and an
\* event line without a value
BodyOddLines ==
    BodyOf(<<DataField, DataField \o <<":", " ", " ", "a", ":", "b">>,
             EventField, <<>>>>)

NamedBodies ==
    {BodyTwoRecords, BodyIgnoredLines, BodyCarriageReturns, BodyOddLines}

Bodies ==
    {BodyOf(ls) : ls \in LineSeqs(MaxLines)}
        \cup {Unterminated(BodyOf(ls)) : ls \in LineSeqs(MaxLines)}
        \cup NamedBodies

InitDecoder ==
    /\ \E src \in Bodies, e \in Ends : esd = NewEventStreamDecoder(src, e)
    /\ sp = NoVariant
    /\ invs = NoInvocations
    /\ dec = NewDecoder([queue |-> <<>>, end |-> Nil])
    /\ stream = NewStream(Nil)
    /\ nextRet = FALSE
    /\ nextCalls = 0
    /\ pc = "decoder"
    /\ ret = Nil
    /\ inThinking = FALSE
    /\ buffer = <<>>
    /\ sent = <<>>
    /\ frags = <<>>
    /\ hist = HistStart
    /\ cuts = 0
    /\ bodyClosed = FALSE

\* a call of decoder.Next(): it runs until it returns or blocks in a Read
DecoderCall ==
    /\ pc = "decoder"
    /\ esd.pc = "idle"
    /\ esd.idle < MaxIdleCalls
    /\ esd' = eventStreamDecoderNext(esd)
    /\ UNCHANGED <<streamVars, handlerVars, sp, invs>>

\* the blocked Read returns k bytes of the body, and Next goes on
BodyRead(k) ==
    /\ pc = "decoder"
    /\ esd.pc = "reading"
    /\ k \in 1..Len(esd.rest)
    /\ esd' = eventStreamDecoderLoop(ReadReturns(esd, k))
    /\ UNCHANGED <<streamVars, handlerVars, sp, invs>>

\* the blocked Read finds the end of the body: io.EOF or a read error
BodyEnds ==
    /\ pc = "decoder"
    /\ esd.pc = "reading"
    /\ Len(esd.rest) = 0
    /\ esd' = eventStreamDecoderLoop(ReadReturns(esd, 0))
    /\ UNCHANGED <<streamVars, handlerVars, sp, invs>>

NextDecoder ==
    \/ DecoderCall
    \/ \E k \in 1..Len(esd.rest) : BodyRead(k)
    \/ BodyEnds

SpecDecoder == InitDecoder /\ [][NextDecoder]_vars

(***************************************************************************)
(* The suffix-probe variant as a state machine: the upstream delivers a    *)
(* text in chunks of its choosing and the carry loop, or a caller of the   *)
(* two functions alone, consumes them.                                     *)
(***************************************************************************)
\* the longest text of the variant, in pieces
MaxPieces == 3

\* the largest number of chunks a text is delivered in
MaxChunks == 2

VariantPieces == {<<"a">>, <<" ">>, OpenTag, CloseTag}

RECURSIVE PiecesUpTo(_)
PiecesUpTo(n) ==
    IF n = 0 THEN {<<>>}
    ELSE LET shorter == PiecesUpTo(n - 1)
         IN  shorter \cup {t \o piece : t \in shorter, piece \in VariantPieces}

\* "<think>a</think>b<think>c</think>", two think blocks with text between
TextTwoThinkBlocks ==
    OpenTag \o <<"a">> \o CloseTag \o <<"b">> \o OpenTag \o <<"c">> \o CloseTag

\* "a<think>\nb\n</think>\n\nc", a block and a tail wrapped in line breaks
TextLineBreaks ==
    <<"a">> \o OpenTag \o <<"\n", "b", "\n">> \o CloseTag \o <<"\n", "\n", "c">>

VariantTexts ==
    (PiecesUpTo(MaxPieces) \ {<<>>}) \cup {TextTwoThinkBlocks, TextLineBreaks}

\* every variable the variant and the side-by-side invocations leave alone
RestIdle(where) ==
    /\ esd = NewEventStreamDecoder(<<>>, Nil)
    /\ dec = NewDecoder([queue |-> <<>>, end |-> Nil])
    /\ stream = NewStream(Nil)
    /\ nextRet = FALSE
    /\ nextCalls = 0
    /\ pc = where
    /\ ret = Nil
    /\ inThinking = FALSE
    /\ buffer = <<>>
    /\ sent = <<>>
    /\ frags = <<>>
    /\ hist = HistStart
    /\ cuts = 0
    /\ bodyClosed = FALSE

InitVariant ==
    /\ \E text \in VariantTexts, drive \in {"handler", "calls", "probe"} :
          sp = NewVariant(text, drive)
    /\ invs = NoInvocations
    /\ RestIdle("variant")

\* the sizes the next chunk may have: the last chunk takes what is left; the
\* handler may be given a delta with empty content
ChunkSizes ==
    IF Len(sp.given) = MaxChunks - 1
    THEN {Len(sp.rest)}
    ELSE (IF sp.drive = "handler" THEN {0} ELSE {}) \cup 1..Len(sp.rest)

\* one pass of the variant's loop over a completion chunk with a Delta: the
\* carried partial tag is prepended, the new one stripped, the rest handed to
\* extractThinkTags
CarryStep(delta, partialTag, inThinkTag, thinkContent) ==
    LET quiet == [partialTag |-> partialTag, inThinkTag |-> inThinkTag,
                  thinkContent |-> thinkContent, responses |-> <<>>,
                  probed |-> FALSE, content |-> <<>>, result |-> <<>>]
    IN  IF delta = <<>> THEN quiet
        ELSE LET content == partialTag \o delta
                 newPartialTag == extractPartialTag(content, inThinkTag)
                 stripped ==
                     SubSeq(content, 1, Len(content) - Len(newPartialTag))
                 st == extractThinkTags(stripped, inThinkTag, thinkContent)
             IN  IF stripped = <<>>
                 THEN [quiet EXCEPT !.partialTag = newPartialTag,
                                    !.probed = TRUE,
                                    !.content = content,
                                    !.result = newPartialTag]
                 ELSE [partialTag |-> newPartialTag,
                       inThinkTag |-> st.inThinkTag,
                       thinkContent |-> st.thinkContent,
                       responses |-> st.responses,
                       probed |-> TRUE, content |-> content,
                       result |-> newPartialTag]

\* the handler takes the next chunk, of k bytes; the failed-th conn.Send of
\* its responses fails (0: none does)
VariantChunk(k, failed) ==
    /\ sp.drive = "handler"
    /\ sp.pc = "running"
    /\ Len(sp.rest) > 0
    /\ Len(sp.given) < MaxChunks
    /\ LET delta == SubSeq(sp.rest, 1, k)
           step == CarryStep(delta, sp.partialTag, sp.inThinkTag,
                             sp.thinkContent)
       IN  /\ failed <= Len(step.responses)
           /\ sp' = [sp EXCEPT
                  !.rest = SliceFrom(@, k + 1),
                  !.given = Append(@, delta),
                  !.partialTag = step.partialTag,
                  !.inThinkTag = step.inThinkTag,
                  !.thinkContent = step.thinkContent,
                  !.responses =
                      IF failed = 0 THEN @ \o step.responses
                      ELSE @ \o SubSeq(step.responses, 1, failed - 1),
                  !.last = step.responses,
                  !.lastContent = delta,
                  !.probe =
                      IF step.probed
                      THEN [content |-> step.content,
                            inThinkTag |-> sp.inThinkTag,
                            result |-> step.result]
                      ELSE @,
                  !.pc = IF failed = 0 THEN @ ELSE "returned",
                  !.ret = IF failed = 0 THEN @ ELSE SendFailure(SendError)]
    /\ UNCHANGED <<streamVars, handlerVars, esd, invs>>

\* a variant that sends what the locals still hold when the loop has ended
VariantFlush_sendsHeld(partialTag, inThinkTag, thinkContent) ==
    IF inThinkTag
    THEN AppendReasoning(<<>>, TrimSpace(thinkContent \o partialTag))
    ELSE AppendCompletion(<<>>, partialTag)

\* what the handler sends between the end of its loop and its return: nothing
VariantFlush(partialTag, inThinkTag, thinkContent) == <<>>

\* stream.Next() returns false: the handler checks stream.Err() and returns
VariantReturn(end) ==
    /\ sp.drive = "handler"
    /\ sp.pc = "running"
    /\ sp' = [sp EXCEPT
           !.responses = @ \o VariantFlush(sp.partialTag, sp.inThinkTag,
                                          sp.thinkContent),
           !.pc = "returned",
           !.ret = IF end = Nil THEN Nil ELSE StreamFailure(end)]
    /\ UNCHANGED <<streamVars, handlerVars, esd, invs>>

\* a caller hands the next k bytes to extractThinkTags, the two locals shared
\* between its calls
ExtractCall(k) ==
    /\ sp.drive = "calls"
    /\ Len(sp.rest) > 0
    /\ Len(sp.given) < MaxChunks
    /\ LET content == SubSeq(sp.rest, 1, k)
           st == extractThinkTags(content, sp.inThinkTag, sp.thinkContent)
       IN  sp' = [sp EXCEPT
               !.rest = SliceFrom(@, k + 1),
               !.given = Append(@, content),
               !.inThinkTag = st.inThinkTag,
               !.thinkContent = st.thinkContent,
               !.responses = @ \o st.responses,
               !.last = st.responses,
               !.lastContent = content]
    /\ UNCHANGED <<streamVars, handlerVars, esd, invs>>

\* a caller hands the first k bytes of the text to extractPartialTag
ProbeCall(k, inThinkTag) ==
    /\ sp.drive = "probe"
    /\ LET content == SubSeq(sp.rest, 1, k)
       IN  sp' = [sp EXCEPT
               !.probe = [content |-> content, inThinkTag |-> inThinkTag,
                          result |-> extractPartialTag(content, inThinkTag)]]
    /\ UNCHANGED <<streamVars, handlerVars, esd, invs>>

NextVariant ==
    \/ \E k \in ChunkSizes, failed \in 0..2 : VariantChunk(k, failed)
    \/ \E end \in Ends : VariantReturn(end)
    \/ \E k \in ChunkSizes : ExtractCall(k)
    \/ \E k \in 0..Len(sp.rest), inThinkTag \in BOOLEAN : ProbeCall(k, inThinkTag)

SpecVariant == InitVariant /\ [][NextVariant]_vars

(***************************************************************************)
(* Two invocations of StreamChatCompletions on one PerplexityService, side *)
(* by side.  invs.run[p] is invocation p: the delta contents its stream is *)
(* still to deliver (todo), those it has scanned (frags), the messages it  *)
(* handed to its conn.Send, its position and its return value.             *)
(* invs.splitter[q] is one pair of the variables inThinking and buffer.    *)
(***************************************************************************)
Invocations == {1, 2}

\* a variant with one pair of splitter variables for all invocations, as a
\* field of the PerplexityService would be
SplitterOf_shared(p) == 1

\* the splitter variables invocation p reads and writes: its own locals
SplitterOf(p) == p

InitPair ==
    /\ \E todo \in [Invocations -> NamedFrags] :
          invs = [splitter |-> [q \in Invocations |->
                                   [inThinking |-> FALSE, buffer |-> <<>>]],
                  run |-> [p \in Invocations |->
                              [todo |-> todo[p], frags |-> <<>>,
                               sent |-> <<>>, pc |-> "streaming",
                               ret |-> Nil]]]
    /\ sp = NoVariant
    /\ RestIdle("pair")

\* invocation p takes the next chunk of its stream and scans it; the
\* failed-th conn.Send of the chunk fails (0: none does)
PairChunk(p, failed) ==
    LET run == invs.run[p]
        mine == invs.splitter[SplitterOf(p)]
    IN  /\ run.pc = "streaming"
        /\ Len(run.todo) > 0
        /\ LET content == Head(run.todo)
               deltaContent ==
                   IF Len(mine.buffer) > 0 THEN mine.buffer \o content
                   ELSE content
               sc == ScanLoop(deltaContent, ScanStart(mine.inThinking, HistStart))
               sends == ChunkSends(sc)
           IN  /\ failed <= Len(sends)
               /\ invs' = [invs EXCEPT
                      !.splitter[SplitterOf(p)] =
                          [inThinking |-> sc.inThinking, buffer |-> sc.buffer],
                      !.run[p] = [run EXCEPT
                          !.todo = Tail(@),
                          !.frags = Append(@, content),
                          !.sent = IF failed = 0 THEN @ \o sends
                                   ELSE @ \o SubSeq(sends, 1, failed),
                          !.pc = IF failed = 0 THEN @ ELSE "returned",
                          !.ret = IF failed = 0 THEN @
                                  ELSE SendFailure(SendError)]]
        /\ UNCHANGED <<streamVars, handlerVars, esd, sp>>

\* the stream of invocation p has ended: it flushes its buffer and returns
PairFinish(p, failed) ==
    LET run == invs.run[p]
        mine == invs.splitter[SplitterOf(p)]
        sends == FlushSends(mine.buffer, mine.inThinking)
    IN  /\ run.pc = "streaming"
        /\ Len(run.todo) = 0
        /\ failed <= Len(sends)
        /\ invs' = [invs EXCEPT
               !.run[p] = [run EXCEPT
                   !.sent = @ \o sends,
                   !.pc = "returned",
                   !.ret = IF failed > 0 THEN SendFailure(SendError) ELSE Nil]]
        /\ UNCHANGED <<streamVars, handlerVars, esd, sp>>

NextPair ==
    \/ \E p \in Invocations, failed \in 0..2 : PairChunk(p, failed)
    \/ \E p \in Invocations, failed \in 0..1 : PairFinish(p, failed)

SpecPair == InitPair /\ [][NextPair]_vars

(***************************************************************************)
(* What the claims are stated with.                                        *)
(***************************************************************************)
Msg(kind, text) == [kind |-> kind, text |-> text]

RECURSIVE TextOf(_, _)
\* the concatenated text of the messages of one kind
TextOf(kind, msgs) ==
    IF msgs = <<>> THEN <<>>
    ELSE (IF Head(msgs).kind = kind THEN Head(msgs).text ELSE <<>>)
         \o TextOf(kind, Tail(msgs))

\* a conn.Send call failed, so the handler stopped in the middle of its sends
SendFailed == ret = SendFailure(SendError)

RECURSIVE RefScanLoop(_, _, _, _, _)
\* the one-pass scan of TestThinkTagParsing: for i := 0; i < len(tc.input); { ... }
RefScanLoop(input, i, inTh, reasoningBuf, messageBuf) ==
    IF i > Len(input)
    THEN [msg |-> messageBuf, reas |-> reasoningBuf]
    ELSE IF ~inTh /\ HasPrefix(SliceFrom(input, i), OpenTag)
    THEN RefScanLoop(input, i + Len(OpenTag), TRUE, reasoningBuf, messageBuf)
    ELSE IF inTh /\ HasPrefix(SliceFrom(input, i), CloseTag)
    THEN RefScanLoop(input, i + Len(CloseTag), FALSE, reasoningBuf, messageBuf)
    ELSE IF inTh
    THEN RefScanLoop(input, i + 1, inTh, Append(reasoningBuf, input[i]), messageBuf)
    ELSE RefScanLoop(input, i + 1, inTh, reasoningBuf, Append(messageBuf, input[i]))

RefScan(input) == RefScanLoop(input, 1, FALSE, <<>>, <<>>)

\* C1: for every text and every way of cutting it into fragments, the scan of
\* the fragments followed by the flush at the end of the stream sends the same
\* concatenated message text and the same concatenated reasoning text as the
\* one-pass scan of the whole text.
C1_RechunkingEquivalence ==
    (pc = "returned" /\ ~SendFailed) =>
        /\ TextOf("message", sent) = RefScan(Flatten(frags)).msg
        /\ TextOf("reasoning", sent) = RefScan(Flatten(frags)).reas

\* a stream whose two tags each arrived in four pieces has been scanned
C1_Witness ==
    /\ pc = "returned"
    /\ ret = Nil
    /\ frags = FragsManyPieces
    /\ hist.opens = 1
    /\ hist.closes = 1
    /\ TextOf("reasoning", sent) = <<"w", "h", "y">>

\* C2: the fragment sequences ["a<thi", "nk>b</think>c"] and
\* ["a<think>b</think>c"] both make the splitter send exactly Answer("a"),
\* Reasoning("b"), Answer("c"), in this order.
C2_SegmentsIndependentOfFragmentation ==
    (pc = "returned" /\ ret = Nil /\ frags \in {FragsSplitOpen, FragsWhole}) =>
        sent = <<Msg("message", <<"a">>), Msg("reasoning", <<"b">>),
                 Msg("message", <<"c">>)>>

\* the contiguous same-mode runs of one scanned chunk, in text order
AddToRuns(segs, kind, c) ==
    IF Len(segs) > 0 /\ segs[Len(segs)].kind = kind
    THEN [segs EXCEPT ![Len(segs)].text = Append(@, c)]
    ELSE Append(segs, Msg(kind, <<c>>))

RECURSIVE ChronoLoop(_, _, _)
ChronoLoop(deltaContent, sc, segs) ==
    IF sc.i > Len(deltaContent)
    THEN segs
    ELSE LET n == ScanStep(deltaContent, sc)
             wrote == Len(n.reasoningBuf) + Len(n.messageBuf)
                        > Len(sc.reasoningBuf) + Len(sc.messageBuf)
         IN  ChronoLoop(deltaContent, n,
                        IF wrote
                        THEN AddToRuns(segs, KindOf(sc.inThinking), deltaContent[sc.i])
                        ELSE segs)

ChronoRuns(deltaContent, inTh) ==
    ChronoLoop(deltaContent, ScanStart(inTh, HistStart), <<>>)

\* C3: for every fragment, the messages sent are the contiguous same-mode
\* runs of that fragment, one message per run, in the order of the text.
C3_ChronologicalWithinFragment ==
    [][(pc = "streaming" /\ pc' = "streaming" /\ frags' # frags) =>
          sent' = sent \o ChronoRuns(buffer \o frags'[Len(frags')], inThinking)]_vars

ContainsATag(text) == Contains(text, OpenTag) \/ Contains(text, CloseTag)

\* C4 as stated: no message sent, while scanning or at the flush, contains
\* the literal "<think>" or "</think>".
C4_NoTagInAnySegment ==
    \A n \in 1..Len(sent) : ~ContainsATag(sent[n].text)

TagOfKind(kind) == IF kind = "reasoning" THEN CloseTag ELSE OpenTag

\* C4 (amended): the text written between two consecutive mode changes,
\* over all fragments and the flush, never contains the tag of the mode it
\* was written in: no "<think>" in a stretch of message text, no "</think>"
\* in a stretch of reasoning text.
C4_NoTagOfItsModeInARun ==
    \A n \in 1..Len(hist.runs) :
        ~Contains(hist.runs[n].text, TagOfKind(hist.runs[n].kind))

\* both tags were consumed, one of them split over two fragments, and text of
\* both kinds was sent around them
C4_Witness ==
    /\ pc = "returned"
    /\ ret = Nil
    /\ frags = FragsSplitOpen
    /\ hist.opens = 1
    /\ hist.closes = 1
    /\ Len(hist.runs) = 3
    /\ Len(sent) = 3

\* C5: at every fragment boundary the buffer is empty or a non-empty proper
\* prefix of the tag of the current mode: at most 6 bytes of "<think>"
\* outside, at most 7 bytes of "</think>" inside.
C5_PendingIsProperPrefix ==
    \/ buffer = <<>>
    \/ /\ Len(buffer) >= 1
       /\ Len(buffer) < Len(TagOfKind(KindOf(inThinking)))
       /\ HasPrefix(TagOfKind(KindOf(inThinking)), buffer)

\* seven bytes of the close tag are held back inside a think block
C5_Witness ==
    /\ pc = "streaming"
    /\ inThinking
    /\ buffer = SubSeq(CloseTag, 1, 7)

\* C6: when the stream ends with a non-empty buffer, the buffer is sent as it
\* is in one last message of the kind of the current mode; with an empty
\* buffer nothing is sent; the one fragment "done<th" is delivered whole as
\* message text.
C6_FlushAtEndOfStream ==
    [][(pc = "streaming" /\ pc' = "returned" /\ frags' = frags) =>
          /\ sent' = IF buffer # <<>>
                     THEN Append(sent, Msg(KindOf(inThinking), buffer))
                     ELSE sent
          /\ (frags = FragsTrailing =>
                (/\ TextOf("message", sent') = <<"d", "o", "n", "e", "<", "t", "h">>
                 /\ TextOf("reasoning", sent') = <<>>))]_vars

\* "done<th" was read, the stream ended, and "<th" went out in a message
C6_Witness ==
    /\ pc = "returned"
    /\ ret = Nil
    /\ frags = FragsTrailing
    /\ sent = <<Msg("message", <<"d", "o", "n", "e">>), Msg("message", <<"<", "t", "h">>)>>

\* C7: "X<think>Y</think>Z" fed as 18 one-character fragments yields exactly
\* Answer("X"), Reasoning("Y"), Answer("Z"), and the buffer ends empty.
C7_SingleUnitChunking ==
    (frags = FragsUnits /\ ~SendFailed) =>
        /\ sent = <<Msg("message", <<"X">>), Msg("reasoning", <<"Y">>),
                    Msg("message", <<"Z">>)>>
        /\ buffer = <<>>

C7_Witness ==
    /\ pc = "returned"
    /\ ret = Nil
    /\ Len(frags) = 18
    /\ frags = FragsUnits

\* C8: inside a think block "<think>" does not change the mode and is sent
\* as reasoning text: the mode is inside exactly when one more open tag than
\* close tags was consumed, and "<think>a<think>b</think>c" yields
\* Reasoning("a<think>b") followed by Answer("c").
C8_NoNesting ==
    /\ inThinking <=> (hist.opens = hist.closes + 1)
    /\ ~inThinking <=> (hist.opens = hist.closes)
    /\ (frags = FragsNested /\ ~SendFailed) =>
          sent = <<Msg("reasoning", <<"a">> \o OpenTag \o <<"b">>),
                   Msg("message", <<"c">>)>>

C8_Witness ==
    /\ pc = "returned"
    /\ ret = Nil
    /\ frags = FragsNested
    /\ hist.opens = 1
    /\ Contains(TextOf("reasoning", sent), OpenTag)

(***************************************************************************)
(* Claims about Stream.Next, under SpecStream.                             *)
(***************************************************************************)
\* a call of Next() that finds the stream without an error
NextRuns == nextCalls' = nextCalls + 1 /\ stream.err = Nil

\* C9: once Next has seen a [DONE] event it returns no further chunk; it
\* pulls every remaining event from the decoder without decoding it, and it
\* ends with the decoder's error: none when the source ended cleanly.
C9_SentinelDraining ==
    [][(NextRuns /\ stream'.done) =>
          /\ nextRet' = FALSE
          /\ stream'.cur = stream.cur
          /\ dec'.queue = <<>>
          /\ stream'.err = dec.end]_vars

\* after [DONE] an event with an error field was pulled and left undecoded
C9_Witness ==
    /\ stream.done
    /\ stream.err = Nil
    /\ nextRet = FALSE
    /\ dec.queue = <<>>
    /\ dec.evt = ErrorEvent("x")
    /\ stream.cur.id = "chunk"

\* the next event, before any [DONE], has the body {"error":"x"}
ErrorEventIsNext ==
    /\ NextRuns
    /\ ~stream.done
    /\ dec.err = Nil
    /\ Len(dec.queue) > 0
    /\ Head(dec.queue).Data = JsonData([error |-> "x"])

\* C10 as stated: Next returns false, Err() reports the message "x", and
\* Current() still returns the last decoded chunk.
C10_ErrorMessageIsX ==
    [][ErrorEventIsNext =>
          /\ nextRet' = FALSE
          /\ stream'.err = <<"x">>
          /\ stream'.cur = stream.cur]_vars

\* C10 (amended): Next returns false, the message of Err() is
\* "received error while streaming: " followed by "x", and Current() still
\* returns the last decoded chunk.
C10_ErrorShortCircuit ==
    [][ErrorEventIsNext =>
          /\ nextRet' = FALSE
          /\ stream'.err = <<"received error while streaming: ", "x">>
          /\ stream'.cur = stream.cur]_vars

\* a chunk was decoded, then the error event stopped the stream
C10_Witness ==
    /\ nextRet = FALSE
    /\ nextCalls = 2
    /\ dec.evt = ErrorEvent("x")
    /\ ~stream.done
    /\ stream.err = UpstreamError(dec.evt.Data)
    /\ stream.cur.id = "chunk"

\* a call of Next() on a stream whose Err() is already non-nil
NextOnFailed == nextCalls' = nextCalls + 1 /\ stream.err # Nil

\* C11: once Err() is non-nil, every later call of Next returns false, pulls
\* no event from the decoder, and leaves Err() and Current() as they were.
C11_FrozenFailure ==
    [][NextOnFailed =>
          /\ nextRet' = FALSE
          /\ dec' = dec
          /\ stream'.err = stream.err
          /\ stream'.cur = stream.cur]_vars

\* a chunk, then an error event, then a call on the failed stream that left
\* the last event of the source unread
C11_Witness ==
    /\ nextCalls = 3
    /\ nextRet = FALSE
    /\ dec.evt = ErrorEvent("quota")
    /\ stream.err = UpstreamError(dec.evt.Data)
    /\ stream.cur.id = "chunk"
    /\ Len(dec.log) = 2
    /\ Len(dec.queue) = 1

RECURSIVE BeforeDone(_)
\* the events of log that come before its first [DONE] event
BeforeDone(log) ==
    IF log = <<>> \/ HasPrefix(Head(log).Data.text, DoneSentinel)
    THEN <<>>
    ELSE <<Head(log)>> \o BeforeDone(Tail(log))

\* the event has no top-level error field and its payload decodes
DecodesCleanly(e) ==
    /\ ~ErrorFieldExists(e.Data)
    /\ DecodeChunk(IF UsesWrapper(e.Type)
                   THEN WrappedData(e.Type, e.Data)
                   ELSE e.Data).err = Nil

\* the source reached its end without a read error, and every event
\* dispatched before the end or before the first [DONE] was a good one
CleanEnd ==
    /\ dec.ended
    /\ dec.end = Nil
    /\ \A i \in 1..Len(BeforeDone(dec.log)) : DecodesCleanly(BeforeDone(dec.log)[i])

\* C12: when Next has returned false, Err() is nil exactly when the source
\* ended cleanly after good events only; in every other case it is non-nil.
C12_CleanEndVersusFailure ==
    (nextCalls > 0 /\ ~nextRet) => ((stream.err = Nil) <=> CleanEnd)

\* a clean end: a chunk, [DONE], and an undecodable event after [DONE]
C12_Witness ==
    /\ nextCalls = 2
    /\ ~nextRet
    /\ stream.err = Nil
    /\ dec.ended
    /\ Len(dec.log) = 3
    /\ dec.log[2] = DoneEvent
    /\ ~DecodesCleanly(dec.log[3])

\* the next event comes before any [DONE]
EventBeforeDoneIsNext ==
    /\ NextRuns
    /\ ~stream.done
    /\ dec.err = Nil
    /\ Len(dec.queue) > 0
    /\ ~HasPrefix(Head(dec.queue).Data.text, DoneSentinel)

\* what C20 says Next decodes for the event e
C20_Decoded(e) ==
    IF HasPrefix(e.Type, ThreadPrefix)
    THEN IF e.Data.json
         THEN DecodeChunk(JsonData([event |-> e.Type, data |-> e.Data.obj]))
         ELSE DecodeChunk(TextData(<<"{">>))
    ELSE DecodeChunk(e.Data)

\* C20: for an event before [DONE], Next first probes the raw data for an
\* error field, whatever the type; without one it decodes the object
\* {"event": type, "data": raw data} exactly when the type starts with
\* "thread.", and the raw data otherwise.  A decode failure returns false
\* with the error set and Current() unchanged, a success returns true with
\* the decoded value.
C20_WrapperSelection ==
    [][EventBeforeDoneIsNext =>
          LET e == Head(dec.queue)
              r == C20_Decoded(e)
          IN  IF "error" \in DOMAIN e.Data.obj
              THEN /\ nextRet' = FALSE
                   /\ stream'.err # Nil
                   /\ stream'.err # r.err
                   /\ stream'.cur = stream.cur
              ELSE /\ nextRet' = (r.err = Nil)
                   /\ stream'.err = r.err
                   /\ stream'.cur = IF r.err = Nil THEN r.val ELSE stream.cur]_vars

\* a chunk with another type was decoded from its raw data, then the same
\* chunk with a "thread." type was wrapped and rejected for unknown fields
C20_Witness ==
    /\ nextCalls = 2
    /\ ~nextRet
    /\ Len(dec.log) = 2
    /\ dec.log[1] = Typed(MessageType, ChunkEvent(<<"a">>))
    /\ dec.log[2] = Typed(ThreadType, ChunkEvent(<<"a">>))
    /\ stream.err = <<"json: unknown field">>
    /\ stream.cur.id = "chunk"


(***************************************************************************)
(* Claims about eventStreamDecoder.Next, under SpecDecoder.                *)
(***************************************************************************)
\* a is a prefix of b
IsPrefix(a, b) == Len(a) <= Len(b) /\ SubSeq(b, 1, Len(a)) = a

RECURSIVE ReadWhole(_)
\* the decoder after Next has been called until it returns false, over a
\* body that arrives in one physical read
ReadWhole(d) ==
    IF d.pc = "reading"
    THEN ReadWhole(eventStreamDecoderLoop(ReadReturns(d, Len(d.rest))))
    ELSE IF d.idle > 0 THEN d
    ELSE ReadWhole(eventStreamDecoderNext(d))

\* Next has returned false
ReturnedFalse == esd.pc = "idle" /\ esd.idle > 0

\* C13: the events that repeated calls of Next return, and the final Err(),
\* are those of the same bytes read in one piece, however the bytes are
\* split into physical reads.
C13_ChunkingInvariance ==
    LET whole == ReadWhole(NewEventStreamDecoder(esd.src, esd.end))
    IN  /\ IsPrefix(esd.log, whole.log)
        /\ ReturnedFalse => (esd.log = whole.log /\ esd.err = whole.err)

\* after the first record a read ended inside the field name "data"; the
\* decoder waits for the rest of the line
C13_Witness ==
    /\ esd.pc = "reading"
    /\ esd.buf = <<"d", "a">>
    /\ Len(esd.log) = 1
    /\ esd.src = BodyTwoRecords

\* the line is a line of the field: its value after the first colon and one
\* optional space, none when the line is the bare field name
IsFieldLine(line, field) == line = field \/ HasPrefix(line, field \o <<":">>)

FieldValue(line, field) ==
    IF line = field THEN <<>>
    ELSE IF HasPrefix(line, field \o <<":", " ">>)
    THEN SliceFrom(line, Len(field) + 3)
    ELSE SliceFrom(line, Len(field) + 2)

RECURSIVE LastEventValue(_)
\* the value of the last event line of lines, empty when there is none
LastEventValue(lines) ==
    IF lines = <<>> THEN <<>>
    ELSE IF IsFieldLine(lines[Len(lines)], EventField)
    THEN FieldValue(lines[Len(lines)], EventField)
    ELSE LastEventValue(SubSeq(lines, 1, Len(lines) - 1))

RECURSIVE DataValues(_)
\* every data value of lines, in order, each followed by a line feed
DataValues(lines) ==
    IF lines = <<>> THEN <<>>
    ELSE (IF IsFieldLine(Head(lines), DataField)
          THEN FieldValue(Head(lines), DataField) \o <<"\n">>
          ELSE <<>>) \o DataValues(Tail(lines))

RECURSIVE RecordsOf(_, _)
\* the events of the lines: one for each blank line, assembled from the
\* lines since the previous blank line (pending holds those lines)
RecordsOf(lines, pending) ==
    IF lines = <<>> THEN <<>>
    ELSE IF Head(lines) = <<>>
    THEN <<[Type |-> LastEventValue(pending), Data |-> DataValues(pending)]>>
             \o RecordsOf(Tail(lines), <<>>)
    ELSE RecordsOf(Tail(lines), Append(pending, Head(lines)))

\* C14: the events dispatched are exactly one per blank line read, each with
\* the value of the last event line as its type and the data values, each
\* followed by "\n", as its data, gathered from the lines read since the
\* previous dispatch only; Event() is the last of them.
C14_RecordAssembly ==
    /\ esd.log = RecordsOf(esd.tokens, <<>>)
    /\ Len(esd.log) > 0 => esd.evt = esd.log[Len(esd.log)]

\* both records of "event: a, data: x, blank, data:y, data: x, blank" were
\* dispatched: the second has no type and only its own data
C14_Witness ==
    /\ esd.src = BodyTwoRecords
    /\ Len(esd.log) = 2
    /\ esd.log[1] = [Type |-> <<"a">>, Data |-> <<"x", "\n">>]
    /\ esd.log[2] = [Type |-> <<>>, Data |-> <<"y", "\n", "x", "\n">>]
    /\ esd.evt = esd.log[2]

\* a comment line, or a line whose field name is neither event nor data
IsIgnoredLine(line) ==
    /\ line # <<>>
    /\ ~IsFieldLine(line, EventField)
    /\ ~IsFieldLine(line, DataField)

RECURSIVE StripIgnored(_)
\* the bytes of src without its ignored lines
StripIgnored(src) ==
    IF src = <<>> THEN <<>>
    ELSE LET i == IndexByte(src, "\n")
             line == IF i > 0 THEN SubSeq(src, 1, i - 1) ELSE src
             raw == IF i > 0 THEN SubSeq(src, 1, i) ELSE src
             rest == IF i > 0 THEN SliceFrom(src, i + 1) ELSE <<>>
         IN  (IF IsIgnoredLine(dropCR(line)) THEN <<>> ELSE raw)
                 \o StripIgnored(rest)

\* C15: comment lines and lines of other fields dispatch nothing and change
\* no record: the events of a body are the events of the same body with
\* those lines taken out.
C15_IgnoredLines ==
    /\ Len(esd.log) = Len(SelectSeq(esd.tokens, LAMBDA t : t = <<>>))
    /\ ReturnedFalse =>
          esd.log = ReadWhole(NewEventStreamDecoder(StripIgnored(esd.src), esd.end)).log

\* a comment and an id line stood between the two data lines of the record
C15_Witness ==
    /\ ReturnedFalse
    /\ esd.src = BodyIgnoredLines
    /\ \E i, j \in 1..Len(esd.tokens) :
          esd.tokens[i] = LineComment /\ esd.tokens[j] = LineOther
    /\ esd.log = <<[Type |-> <<>>, Data |-> <<"x", "\n", "y", "\n">>]>>

\* the body has ended with io.EOF and the scanner has handed over every line
SourceEnded(d) == d.scnErr = EOF /\ Len(d.buf) = 0

\* the last line read is a field line: no blank line has followed it
PartialPending(d) == Len(d.tokens) > 0 /\ d.tokens[Len(d.tokens)] # <<>>

\* C16: when Next returns at the end of a body whose last lines were not
\* followed by a blank line, in the call that finds the end and in every
\* later call, it returns false with Err() nil, dispatches nothing, and
\* Event() is still the record dispatched before.
C16_NoFlushOnEOF ==
    [][(esd'.pc = "idle" /\ SourceEnded(esd') /\ PartialPending(esd')) =>
          /\ esd'.ret = FALSE
          /\ esd'.err = Nil
          /\ esd'.log = esd.log
          /\ esd'.evt = esd.evt]_vars

\* one record was dispatched, the body ended inside the next one, and Next
\* was called once more
C16_Witness ==
    /\ esd.pc = "idle"
    /\ esd.idle = 2
    /\ SourceEnded(esd)
    /\ PartialPending(esd)
    /\ Len(esd.log) = 1
    /\ esd.evt = esd.log[1]
    /\ esd.err = Nil

C18_SourceReleasedOnEveryExit == pc = "returned" => bodyClosed

\* the handler sent a message, then returned on a read error of the stream
C18_Witness ==
    /\ pc = "returned"
    /\ bodyClosed
    /\ Len(sent) > 0
    /\ ret = StreamFailure(ReadError)

\* stream.Next() returns false because the decoder ended with a read error
ReadFailureEndsLoop ==
    /\ pc = "streaming"
    /\ pc' = "returned"
    /\ nextRet' = FALSE
    /\ dec.err = Nil
    /\ dec'.err = ReadError

\* C19: when the byte source fails, the decoder's Next returns false with
\* the read error, Stream.Next returns false with Err() equal to it, no
\* further chunk is decoded, the pending text is flushed to the client, and
\* the handler returns an upstream error and not success.
C19_CancellationIsTerminal ==
    [][ReadFailureEndsLoop =>
          /\ dec'.ended
          /\ stream'.err = dec'.err
          /\ stream'.cur = stream.cur
          /\ frags' = frags
          /\ sent' = IF buffer # <<>>
                     THEN Append(sent, Msg(KindOf(inThinking), buffer))
                     ELSE sent
          /\ ret' # Nil
          /\ ret'[1] = "UPSTREAM_API_ERROR"
          /\ SendFailed' \/ ret' = StreamFailure(ReadError)]_vars

\* "done<th" was read, the source failed, the pending "<th" was flushed and
\* the handler returned the read error as an upstream error
C19_Witness ==
    /\ pc = "returned"
    /\ frags = FragsTrailing
    /\ dec.err = ReadError
    /\ stream.err = ReadError
    /\ sent[Len(sent)] = Msg("message", <<"<", "t", "h">>)
    /\ ret = StreamFailure(ReadError)


(***************************************************************************)
(* Further claims about the splitter of StreamChatCompletions, under Spec. *)
(***************************************************************************)
\* the handler has scanned one more chunk: its text, with the pending buffer
\* in front, is what the scan ran over
ChunkScanned == pc = "streaming" /\ frags' # frags

ScannedText == buffer \o frags'[Len(frags')]

RECURSIVE ScanMakesProgress(_, _)
\* every pass of the loop from sc on either moves the cursor forward by one
\* byte or by a whole tag, staying within the text, or stops the loop with
\* the remainder, shorter than a tag, in the buffer
ScanMakesProgress(deltaContent, sc) ==
    IF sc.i > Len(deltaContent) THEN TRUE
    ELSE LET n == ScanStep(deltaContent, sc)
             remaining == SliceFrom(deltaContent, sc.i)
             stopped == n.buffer # sc.buffer
         IN  /\ IF stopped
                THEN /\ n.buffer = remaining
                     /\ n.i = Len(deltaContent) + 1
                     /\ Len(remaining) < MaxTagLen
                ELSE /\ n.i \in {sc.i + 1, sc.i + Len(OpenTag), sc.i + Len(CloseTag)}
                     /\ n.i <= Len(deltaContent) + 1
                     /\ n.buffer = <<>>
             /\ ScanMakesProgress(deltaContent, n)

\* C21: the scan of every chunk ends, each pass moving the cursor forward or
\* stopping with the remainder in the buffer, and it has no error outcome:
\* an error the handler returns once the stream is open is the error of a
\* send to the client or the error of the stream.
C21_SplitterTotality ==
    [][/\ ChunkScanned =>
              ScanMakesProgress(ScannedText, ScanStart(inThinking, hist))
       /\ (pc = "streaming" /\ pc' = "returned" /\ ret' # Nil) =>
              \/ ret' = SendFailure(SendError)
              \/ (stream'.err # Nil /\ ret' = StreamFailure(stream'.err))]_vars

\* two chunks were scanned, the second one after a tag and up to a held-back
\* "</", and everything was sent
C21_Witness ==
    /\ pc = "streaming"
    /\ Len(frags) = 2
    /\ inThinking
    /\ buffer = <<"<", "/">>
    /\ hist.opens = 1
    /\ Len(sent) = 2


\* the conn.Send calls of the step
NewSends == SubSeq(sent', Len(sent) + 1, Len(sent'))

\* C27: while the handler streams, the bytes sent as message text, the bytes
\* sent as reasoning text, the bytes in the buffer and the bytes of the tags
\* matched (7 for each "<think>", 8 for each "</think>") add up to the bytes
\* of the chunks consumed; a buffer carried into a chunk that neither begins
\* with its tag nor is held back whole goes out first, in the text of the
\* current mode.
C27_ByteConservation ==
    [][/\ (pc' = "streaming" /\ ~SendFailed') =>
              Len(TextOf("message", sent')) + Len(TextOf("reasoning", sent'))
                + Len(buffer') + Len(OpenTag) * hist'.opens
                + Len(CloseTag) * hist'.closes
              = Len(Flatten(frags'))
       /\ (/\ ChunkScanned
           /\ ~SendFailed'
           /\ ~HasPrefix(ScannedText, IF inThinking THEN CloseTag ELSE OpenTag)
           /\ buffer' # ScannedText) =>
              HasPrefix(TextOf(KindOf(inThinking), NewSends), buffer)]_vars

\* a whole think block went by and "<t" is held back: 1 + 7 + 1 + 8 + 2 bytes
C27_Witness ==
    /\ pc = "streaming"
    /\ hist.opens = 1
    /\ hist.closes = 1
    /\ buffer = <<"<", "t">>
    /\ TextOf("reasoning", sent) # <<>>
    /\ TextOf("message", sent) # <<>>

RECURSIVE Rebuild(_)
\* the text the runs were cut from: each run after the first follows the tag
\* that opened it
Rebuild(runs) ==
    IF Len(runs) = 1 THEN runs[1].text
    ELSE Rebuild(SubSeq(runs, 1, Len(runs) - 1))
         \o (IF runs[Len(runs)].kind = "reasoning" THEN OpenTag ELSE CloseTag)
         \o runs[Len(runs)].text

\* C28: the mode changes by a whole tag of the current mode only: the runs
\* of text alternate between message and reasoning, starting with message,
\* a "<think>" stands before each reasoning run and a "</think>" before each
\* later message run, and everything else that was read, a "</think>" met
\* outside a block included, is text of a run or waits in the buffer.
C28_ModeChangesOnlyOnMarker ==
    pc = "streaming" =>
        /\ \A n \in 1..Len(hist.runs) :
              hist.runs[n].kind = (IF n % 2 = 1 THEN "message" ELSE "reasoning")
        /\ inThinking = (Len(hist.runs) % 2 = 0)
        /\ hist.opens + hist.closes = Len(hist.runs) - 1
        /\ Rebuild(hist.runs) \o buffer = Flatten(frags)

\* a "</think>" came outside a block: it is message text, the mode is as it was
C28_Witness ==
    /\ pc = "streaming"
    /\ ~inThinking
    /\ Len(hist.runs) = 1
    /\ Contains(hist.runs[1].text, CloseTag)
    /\ Contains(TextOf("message", sent), CloseTag)

RECURSIVE RunsText(_, _)
\* the text of the runs of one kind
RunsText(kind, runs) ==
    IF runs = <<>> THEN <<>>
    ELSE (IF Head(runs).kind = kind THEN Head(runs).text ELSE <<>>)
         \o RunsText(kind, Tail(runs))

\* the bytes the scan of the step wrote in one mode
WrittenInStep(kind) ==
    SliceFrom(RunsText(kind, hist'.runs), Len(RunsText(kind, hist.runs)) + 1)

\* the two sends of a chunk: all its reasoning bytes, then all its message
\* bytes, none for an empty buffer
SendShape ==
    (IF WrittenInStep("reasoning") # <<>>
     THEN <<Msg("reasoning", WrittenInStep("reasoning"))>> ELSE <<>>)
    \o (IF WrittenInStep("message") # <<>>
        THEN <<Msg("message", WrittenInStep("message"))>> ELSE <<>>)

\* C29: for each chunk the handler sends at most two messages: at most one
\* reasoning chunk with all the reasoning bytes of the chunk, then at most
\* one message chunk with all its message bytes, none of them empty; a send
\* that fails ends the sequence.
C29_PerFragmentSendShape ==
    [][ChunkScanned =>
          /\ Len(NewSends) <= 2
          /\ IF SendFailed'
             THEN Len(NewSends) > 0 /\ NewSends = SubSeq(SendShape, 1, Len(NewSends))
             ELSE NewSends = SendShape]_vars

\* the one chunk "a<think>b</think>c" went out as reasoning "b", then
\* message "ac"
C29_Witness ==
    /\ pc = "streaming"
    /\ frags = FragsWhole
    /\ sent = <<Msg("reasoning", <<"b">>), Msg("message", <<"a", "c">>)>>

\* stream.Next() has returned a chunk without choices or without content
SkippedChunkRead ==
    /\ pc = "streaming"
    /\ nextCalls' = nextCalls + 1
    /\ nextRet'
    /\ IF stream'.cur.choices = <<>> THEN TRUE
       ELSE stream'.cur.choices[1].delta.content = <<>>

\* the three chunks of text of SkippingEvents
FragsAroundSkips ==
    <<<<"<", "t", "h", "i">>, <<"n", "k", ">", "r", "<", "/", "t", "h">>,
      <<"i", "n", "k", ">", "m">>>>

\* C30: a chunk without choices or with empty content sends nothing and
\* leaves the mode and the buffer as they were; the tags of "<thi", "",
\* "nk>r</th", (no choices), "ink>m" are recognised: "r" is reasoning and
\* "m" is message text.
C30_SkippedChunksKeepState ==
    [][/\ SkippedChunkRead =>
              (sent' = sent /\ inThinking' = inThinking /\ buffer' = buffer)
       /\ (ChunkScanned /\ frags' = FragsAroundSkips /\ ~SendFailed') =>
              /\ TextOf("reasoning", sent') = <<"r">>
              /\ TextOf("message", sent') = <<"m">>]_vars

\* both skipped chunks were read while a part of a tag was in the buffer
C30_Witness ==
    /\ pc = "streaming"
    /\ frags = FragsAroundSkips
    /\ nextCalls = 5
    /\ sent = <<Msg("reasoning", <<"r">>), Msg("message", <<"m">>)>>

(***************************************************************************)
(* The suffix-probe variant.                                               *)
(***************************************************************************)
\* the lengths of the non-empty proper prefixes of marker that content ends with
PartialsOf(content, marker) ==
    {n \in 1..(Len(marker) - 1) : HasSuffix(content, SubSeq(marker, 1, n))}

\* the longest suffix of content that is a non-empty proper prefix of marker
LongestPartial(content, marker) ==
    LET ns == PartialsOf(content, marker)
    IN  IF ns = {} THEN <<>>
        ELSE SubSeq(marker, 1, CHOOSE n \in ns : \A m \in ns : m <= n)

RelevantMarker(inThinkTag) == IF inThinkTag THEN CloseTag ELSE OpenTag

ReasoningOf(responses) ==
    LET rs == SelectSeq(responses, LAMBDA r : r.kind = "reasoning")
    IN  [i \in 1..Len(rs) |-> rs[i].text]

\* the responses of extractThinkTags for the whole text in one call
Unsplit(text) == extractThinkTags(text, FALSE, <<>>).responses

\* C24: however the text is cut into chunks, the Reasoning responses the
\* carry loop has sent carry the same reasoning text as the responses of
\* extractThinkTags for the unsplit text delivered so far.
C24_SplitMarkersRecognised ==
    (sp.drive = "handler" /\ sp.ret = Nil) =>
        ReasoningOf(sp.responses) = ReasoningOf(Unsplit(Flatten(sp.given)))

RECURSIVE BlockAfterCall(_, _)
\* the think block that is open after a call with content: whether one is
\* open and the raw text it holds so far, blk being the block open before
BlockAfterCall(content, blk) ==
    LET marker == IF blk.inside THEN CloseTag ELSE OpenTag
    IN  IF Contains(content, marker)
        THEN BlockAfterCall(
                 SliceFrom(content, Index(content, marker) + Len(marker)),
                 [inside |-> ~blk.inside, text |-> <<>>])
        ELSE [blk EXCEPT !.text = IF blk.inside THEN @ \o content ELSE <<>>]

RECURSIVE BlockAfterCalls(_)
BlockAfterCalls(contents) ==
    IF contents = <<>> THEN [inside |-> FALSE, text |-> <<>>]
    ELSE BlockAfterCall(contents[Len(contents)],
                        BlockAfterCalls(SubSeq(contents, 1, Len(contents) - 1)))

\* a step in which extractThinkTags was called by itself
ExtractCalled == sp.drive = "calls" /\ sp.given' # sp.given

\* what a call that starts inside a block and meets the close marker does:
\* closing is what the close of the block has to produce
ClosingCall(closing(_)) ==
    LET open == BlockAfterCalls(sp.given)
        content == sp.lastContent'
        thinkEnd == Index(content, CloseTag)
        block == open.text \o SubSeq(content, 1, thinkEnd - 1)
        after == SliceFrom(content, thinkEnd + Len(CloseTag))
        first == closing(TrimSpace(block))
    IN  /\ sp.inThinkTag = open.inside
        /\ (open.inside /\ thinkEnd = 0) =>
              /\ sp.last' = <<>>
              /\ sp.inThinkTag'
        /\ (open.inside /\ thinkEnd > 0) =>
              /\ Len(sp.last') >= Len(first)
              /\ SubSeq(sp.last', 1, Len(first)) = first
              /\ ~Contains(after, OpenTag) =>
                    /\ ~sp.inThinkTag'
                    /\ sp.last' = first \o
                          (IF TrimSpace(after) # <<>>
                           THEN <<[kind |-> "completion", text |-> after]>>
                           ELSE <<>>)

\* the one Reasoning response of a closed block
OneReasoning(thought) == <<[kind |-> "reasoning", text |-> thought]>>

\* the one Reasoning response of a closed block whose text is not blank
OneReasoningUnlessBlank(thought) ==
    IF thought # <<>> THEN OneReasoning(thought) ELSE <<>>

\* C25 as stated: across calls of extractThinkTags that share inThinkTag and
\* thinkContent, text after an open marker produces no response and leaves
\* inThinkTag true until the close marker is consumed; that call produces
\* exactly one Reasoning response with the trimmed text of the whole block,
\* inThinkTag becomes false and later non-blank text yields a Completion.
C25_ReasoningAtClose ==
    [][ExtractCalled => ClosingCall(OneReasoning)]_vars

\* C25, amended: the call that consumes the close marker produces the one
\* Reasoning response of the block, with the trimmed text accumulated over
\* all calls, unless that text is empty, and then it produces none.
C25_ReasoningAtCloseUnlessBlank ==
    [][ExtractCalled => ClosingCall(OneReasoningUnlessBlank)]_vars

\* the block "<think>\nb\n</think>" opened in one call and closed in the
\* next: the second call returns Reasoning("b") and Completion("\n\nc")
C25_Witness ==
    /\ sp.drive = "calls"
    /\ sp.given = <<<<"a">> \o OpenTag \o <<"\n", "b">>,
                    <<"\n">> \o CloseTag \o <<"\n", "\n", "c">>>>
    /\ sp.last = <<[kind |-> "reasoning", text |-> <<"b">>],
                   [kind |-> "completion", text |-> <<"\n", "\n", "c">>]>>
    /\ ~sp.inThinkTag

RECURSIVE RunsOfText(_, _)
\* the runs of a text in text order: the stretches outside think blocks and
\* the contents of the blocks, a block being closed by the first "</think>"
\* after its "<think>"
RunsOfText(text, inside) ==
    LET marker == IF inside THEN CloseTag ELSE OpenTag
        at == Index(text, marker)
    IN  IF at = 0
        THEN <<[inside |-> inside, closed |-> FALSE, text |-> text]>>
        ELSE <<[inside |-> inside, closed |-> TRUE,
                text |-> SubSeq(text, 1, at - 1)]>>
             \o RunsOfText(SliceFrom(text, at + Len(marker)), ~inside)

IsBlank(text) == \A i \in 1..Len(text) : text[i] \in WhiteSpace

RECURSIVE StripBlanks(_)
\* text without its leading and trailing white space
StripBlanks(text) ==
    IF text = <<>> THEN <<>>
    ELSE IF Head(text) \in WhiteSpace THEN StripBlanks(Tail(text))
    ELSE IF text[Len(text)] \in WhiteSpace
         THEN StripBlanks(SubSeq(text, 1, Len(text) - 1))
    ELSE text

RECURSIVE ResponsesOfRuns(_)
\* one Completion per non-blank run outside, one Reasoning per closed block
\* with non-blank content, in the order of the runs
ResponsesOfRuns(runs) ==
    IF runs = <<>> THEN <<>>
    ELSE LET run == Head(runs)
         IN  (IF IsBlank(run.text) \/ (run.inside /\ ~run.closed)
              THEN <<>>
              ELSE IF run.inside
                   THEN <<[kind |-> "reasoning", text |-> StripBlanks(run.text)]>>
                   ELSE <<[kind |-> "completion", text |-> run.text]>>)
             \o ResponsesOfRuns(Tail(runs))

\* C26: for a single content processed from the Outside state,
\* extractThinkTags returns, in text order, one Completion per non-blank run
\* of text outside think blocks and one Reasoning per closed think block with
\* non-blank content; runs of white space only produce no response.
C26_ResponseList ==
    (sp.drive = "calls" /\ Len(sp.given) = 1) =>
        sp.responses = ResponsesOfRuns(RunsOfText(sp.given[1], FALSE))

\* "a<think>\nb\n</think>\n\nc" in one call: Completion("a"), Reasoning("b"),
\* Completion("\n\nc")
C26_Witness ==
    /\ sp.drive = "calls"
    /\ sp.given = <<TextLineBreaks>>
    /\ sp.responses = <<[kind |-> "completion", text |-> <<"a">>],
                        [kind |-> "reasoning", text |-> <<"b">>],
                        [kind |-> "completion", text |-> <<"\n", "\n", "c">>]>>

(***************************************************************************)
(* Invocations side by side.                                               *)
(***************************************************************************)
RECURSIVE AloneAfter(_)
\* the splitter variables and the messages of an invocation that scanned
\* contents with nothing else running
AloneAfter(contents) ==
    IF contents = <<>>
    THEN [inThinking |-> FALSE, buffer |-> <<>>, sent |-> <<>>]
    ELSE LET before == AloneAfter(SubSeq(contents, 1, Len(contents) - 1))
             content == contents[Len(contents)]
             sc == ScanLoop(before.buffer \o content,
                            ScanStart(before.inThinking, HistStart))
         IN  [inThinking |-> sc.inThinking, buffer |-> sc.buffer,
              sent |-> before.sent \o ChunkSends(sc)]

\* everything an invocation run alone hands to conn.Send for contents and the
\* end of the stream
AloneSends(contents) ==
    LET alone == AloneAfter(contents)
    IN  alone.sent \o FlushSends(alone.buffer, alone.inThinking)

\* C22: for any interleaving of two invocations on one PerplexityService,
\* each invocation hands to conn.Send exactly the messages it hands over when
\* run alone on its own fragments: the mode and the pending buffer are its
\* own.
C22_NoSharedSplitterState ==
    \A p \in DOMAIN invs.run :
        LET run == invs.run[p]
        IN  /\ run.pc = "streaming" => run.sent = AloneAfter(run.frags).sent
            /\ (run.pc = "returned" /\ run.ret = Nil) =>
                   run.sent = AloneSends(run.frags)
            /\ (run.pc = "returned" /\ run.ret # Nil) =>
                   IsPrefix(run.sent, AloneSends(run.frags))

\* invocation 1 holds back "<thi" outside a block while invocation 2 is
\* inside one
C22_Witness ==
    /\ DOMAIN invs.run = Invocations
    /\ invs.run[1].frags = <<FragsSplitOpen[1]>>
    /\ invs.splitter[1] = [inThinking |-> FALSE, buffer |-> <<"<", "t", "h", "i">>]
    /\ invs.run[2].frags = SubSeq(FragsUnits, 1, 9)
    /\ invs.splitter[2] = [inThinking |-> TRUE, buffer |-> <<>>]
    /\ invs.run[2].sent = <<[kind |-> "message", text |-> <<"X">>],
                            [kind |-> "reasoning", text |-> <<"Y">>]>>

(***************************************************************************)
(* Failures of conn.Send and of the stream.                                *)
(***************************************************************************)
\* C31: when a send to the client fails (reasoning chunk, message chunk or
\* the flush at the end of the stream), StreamChatCompletions returns an
\* upstream-api error at once: no message is handed to conn.Send after the
\* failed one, stream.Next() is not called again, and the stream is closed.
C31_SendFailureStopsHandler ==
    hist.failure.err # Nil =>
        /\ pc = "returned"
        /\ ret # Nil
        /\ Head(ret) = "UPSTREAM_API_ERROR"
        /\ IsPrefix(hist.failure.err, SubSeq(ret, 3, Len(ret)))
        /\ Len(sent) = hist.failure.sends
        /\ nextCalls = hist.failure.calls
        /\ IsPrefix(sent, AloneSends(frags))
        /\ bodyClosed

\* "a<think>b</think>c" in one chunk: the send of the reasoning chunk fails
\* and the message chunk "ac" is never sent
C31_Witness ==
    /\ frags = FragsWhole
    /\ hist.failure.err = SendError
    /\ sent = <<[kind |-> "reasoning", text |-> <<"b">>]>>
    /\ nextCalls = 1
    /\ pc = "returned"
    /\ ret = SendFailure(SendError)
    /\ bodyClosed

\* the positions of the blank lines among the lines scanned so far
BlankLines == {i \in 1..Len(esd.tokens) : esd.tokens[i] = <<>>}

\* the position of the n-th blank line
NthBlankLine(n) ==
    CHOOSE i \in BlankLines : Cardinality({k \in BlankLines : k <= i}) = n

\* no event line and no data line was scanned since the blank line before the
\* n-th one
NothingGathered(n) ==
    LET from == IF n = 1 THEN 1 ELSE NthBlankLine(n - 1) + 1
    IN  \A k \in from..(NthBlankLine(n) - 1) : IsIgnoredLine(esd.tokens[k])

\* Stream.Next of a fresh stream whose decoder delivers the event evt
NextOf(evt) ==
    StreamNext(NewStream(Nil),
               NewDecoder([queue |-> <<[Type |-> evt.Type,
                                        Data |-> TextData(evt.Data)]>>,
                           end |-> Nil]))

\* C32: every blank line makes eventStreamDecoder.Next return an Event, also
\* when no event or data line was read since the previous dispatch; that
\* Event has Type "" and empty Data, and when it reaches Stream.Next before
\* [DONE] the decode of its payload fails and the stream ends with a non-nil
\* error.
C32_EmptyRecordsDispatched ==
    /\ Len(esd.log) = Cardinality(BlankLines)
    /\ \A n \in 1..Len(esd.log) :
          NothingGathered(n) =>
              /\ esd.log[n] = [Type |-> <<>>, Data |-> <<>>]
              /\ ~NextOf(esd.log[n]).ok
              /\ NextOf(esd.log[n]).s.err # Nil
              /\ ~NextOf(esd.log[n]).s.done

\* a blank line, a comment and a blank line: two empty events
C32_Witness ==
    /\ esd.tokens = <<<<>>, LineComment, <<>>>>
    /\ esd.log = <<[Type |-> <<>>, Data |-> <<>>],
                   [Type |-> <<>>, Data |-> <<>>]>>
    /\ esd.evt = [Type |-> <<>>, Data |-> <<>>]
    /\ esd.ret
    /\ NextOf(esd.evt).s.err # Nil

\* the delta contents of the events that the handler scans
ScannedContents(events) ==
    LET scanned == SelectSeq(events,
                       LAMBDA e : IsContentChunk(e) /\ ContentOf(e) # <<>>)
    IN  [n \in 1..Len(scanned) |-> ContentOf(scanned[n])]

\* the handler returned, no send having failed, after the body failed with a
\* read error behind a [DONE] event
ReadErrorWhileDraining ==
    /\ pc = "returned"
    /\ hist.failure.err = Nil
    /\ stream.done
    /\ dec.err = ReadError

\* C33: when a read error occurs after a [DONE] event has been seen,
\* Stream.Next returns false with Err() equal to that read error and
\* StreamChatCompletions returns an upstream error, although every chunk
\* before [DONE] was delivered to the client.
C33_ReadErrorWhileDraining ==
    ReadErrorWhileDraining =>
        /\ ~nextRet
        /\ stream.err = ReadError
        /\ ret = StreamFailure(ReadError)
        /\ frags = ScannedContents(BeforeDone(dec.log))
        /\ sent = AloneSends(frags)

\* "a<thi", "nk>b</think>c", [DONE], one more chunk, then the read error
C33_Witness ==
    /\ ReadErrorWhileDraining
    /\ frags = FragsSplitOpen
    /\ dec.log = ChunkEvents(FragsSplitOpen) \o <<DoneEvent, ChunkEvent(<<"z">>)>>
    /\ sent = <<[kind |-> "message", text |-> <<"a">>],
                [kind |-> "reasoning", text |-> <<"b">>],
                [kind |-> "message", text |-> <<"c">>]>>
    /\ ret = StreamFailure(ReadError)

\* the variant's handler leaves its loop and returns
VariantReturns ==
    /\ sp.drive = "handler"
    /\ sp.pc = "running"
    /\ sp'.pc = "returned"
    /\ sp'.given = sp.given

\* C34: the variant's StreamChatCompletions has no flush at the end of the
\* stream: the text held in partialTag and the reasoning text gathered in
\* thinkContent for a block that was never closed are not sent, and the
\* handler returns success when the stream ended without an error.
C34_NoFlushAtEndOfStream ==
    [][VariantReturns =>
          /\ sp'.responses = sp.responses
          /\ sp'.partialTag = sp.partialTag
          /\ sp'.thinkContent = sp.thinkContent
          /\ sp'.inThinkTag = sp.inThinkTag
          /\ sp'.ret \in {Nil, StreamFailure(ReadError)}]_vars

\* the stream ended after the one chunk "<think>a</thi": "a" is in
\* thinkContent, "</thi" in partialTag, nothing was sent and the handler
\* returned nil
C34_Witness ==
    /\ sp.drive = "handler"
    /\ sp.pc = "returned"
    /\ sp.ret = Nil
    /\ sp.given = <<OpenTag \o <<"a", "<", "/", "t", "h", "i">>>>
    /\ sp.inThinkTag
    /\ sp.thinkContent = <<"a">>
    /\ sp.partialTag = <<"<", "/", "t", "h", "i">>
    /\ sp.responses = <<>>

====
